---- MODULE Spec2Model ----
(***************************************************************************)
(* A model of the wiki-proxy server variants (src/server.js and            *)
(* src/unnamed/part_000): the TTL cache, the summary / feed / search       *)
(* adapters, the feed preloader, the /generate aggregation handler, the    *)
(* Gemini fallback loop, the JSON /generate handler and the /api/wikipedia *)
(* passthrough endpoint.                                                   *)
(*                                                                         *)
(* JavaScript values are records tagged by "t".  A string is a sequence of *)
(* tokens: user data (prompts, titles, urls, parameter names) is spelled   *)
(* one character per token, a string literal of the source is one token.   *)
(***************************************************************************)
EXTENDS Integers, Sequences, FiniteSets, TLC

VARIABLES
    now,        \* Date.now(), in milliseconds
    cache,      \* const cache = new Map(): key -> [data, expiry]
    lastSet,    \* cache driver: key -> the last setCache call on that key
    lastGet,    \* cache driver: the last getCache call and what it returned
    h,          \* aggregation variant: handler slot -> state of the async function
    fetches,    \* aggregation variant: upstream calls issued, per cache key
    started,    \* aggregation variant: handlers and preloader runs started so far
    feedUrls,   \* aggregation variant: feedsConfig.rssFeeds, read at startup
    g,          \* generative variant: state of the one /generate handler
    wikiNodeCache, \* passthrough: const wikiNodeCache = new Map()
    pt,         \* passthrough: handler slot -> state of the async function
    ptLog,      \* passthrough: log of answered requests
    checkTimer  \* NodeCache variant: the time the next periodic check is due

vars == <<now, cache, lastSet, lastGet, h, fetches, started, feedUrls, g,
          wikiNodeCache, pt, ptLog, checkTimer>>

-----------------------------------------------------------------------------
(* JavaScript values *)

Undefined == [t |-> "undef"]
Null == [t |-> "null"]
Num(n) == [t |-> "num", n |-> n]
Str(s) == [t |-> "str", s |-> s]
\* a built-in function object, by the name its text shows
Fn(name) == [t |-> "fn", name |-> name]
\* Object.prototype itself, the value of the inherited __proto__ accessor
ObjectProto == [t |-> "obj", name |-> "Object.prototype"]

\* ToBoolean
Truthy(v) ==
    CASE v.t = "undef" -> FALSE
      [] v.t = "null" -> FALSE
      [] v.t = "num" -> v.n # 0
      [] v.t = "str" -> v.s # <<>>
      [] OTHER -> TRUE

\* a || b
JsOr(a, b) == IF Truthy(a) THEN a ELSE b

\* a + b for a number a: numeric addition when b is a number, otherwise the
\* concatenation of the two operands' string forms
JsAdd(a, b) ==
    IF b.t = "num" THEN Num(a.n + b.n)
    ELSE IF b.t = "str" THEN Str(<<ToString(a.n)>> \o b.s)
    ELSE IF b.t = "fn"
    THEN Str(<<ToString(a.n), "function " \o b.name \o "() { [native code] }">>)
    ELSE Str(<<ToString(a.n), "[object Object]">>)

\* a > b for a number b: a string that is not a numeral converts to NaN, and
\* every comparison with NaN is false
JsGt(a, b) == IF a.t = "num" THEN a.n > b.n ELSE FALSE

-----------------------------------------------------------------------------
(* The TTL cache *)

Minute == 60 * 1000

\* const TTL = { wiki: ..., rss: ..., ddg: ... }: the object's own properties
TTL == [wiki |-> 60 * Minute, rss |-> 10 * Minute, ddg |-> 15 * Minute]

DefaultTTL == 300000

\* properties every object literal inherits from Object.prototype
ObjectPrototype ==
    {"constructor", "toString", "valueOf", "hasOwnProperty", "isPrototypeOf",
     "propertyIsEnumerable", "toLocaleString", "__proto__", "__defineGetter__",
     "__defineSetter__", "__lookupGetter__", "__lookupSetter__"}

\* the value of an inherited property: constructor is the function Object,
\* __proto__ is Object.prototype, the others are functions of their own name
Inherited(type) ==
    CASE type = "constructor" -> Fn("Object")
      [] type = "__proto__" -> ObjectProto
      [] OTHER -> Fn(type)

\* TTL[type]: an own property, else an inherited one, else undefined
TTLLookup(type) ==
    IF type \in DOMAIN TTL THEN Num(TTL[type])
    ELSE IF type \in ObjectPrototype THEN Inherited(type)
    ELSE Undefined

\* Date.now() + (TTL[type] || 300000)
Expiry(t, type) == JsAdd(Num(t), JsOr(TTLLookup(type), Num(DefaultTTL)))

MapHas(m, key) == key \in DOMAIN m

MapSet(m, key, val) ==
    [k \in DOMAIN m \cup {key} |-> IF k = key THEN val ELSE m[k]]

MapDelete(m, key) == [k \in DOMAIN m \ {key} |-> m[k]]

EmptyMap == [k \in {} |-> Null]

\* a setCache that updates the data of an entry it finds and leaves the
\* entry's expiry as it was
setCache_KeepsExpiry(c, key, data, type, t) ==
    MapSet(c, key, [data |-> data,
                    expiry |-> IF MapHas(c, key) THEN c[key].expiry ELSE Expiry(t, type)])

\* setCache(key, data, type) at time t: the new cache map
setCache(c, key, data, type, t) ==
    MapSet(c, key, [data |-> data, expiry |-> Expiry(t, type)])

CacheFresh(c, key, t) == MapHas(c, key) /\ JsGt(c[key].expiry, Num(t))

\* getCache(key) at time t: the value returned ...
getCacheRet(c, key, t) == IF CacheFresh(c, key, t) THEN c[key].data ELSE Null

\* ... and the cache map it leaves
getCacheMap(c, key, t) == IF CacheFresh(c, key, t) THEN c ELSE MapDelete(c, key)

-----------------------------------------------------------------------------
(* A driver for the cache alone: any sequence of setCache / getCache calls   *)
(* at any times on the clock's grid.                                         *)

\* the clock advances in steps of this many milliseconds
ClockStep == 5 * Minute

\* the clock stops after this many steps
MaxTicks == 13

\* setCache calls in one run of the cache driver
MaxSets == 2

CacheKeys == {Str(<<"k", "1">>), Str(<<"k", "2">>)}

CacheValues == {Str(<<"v">>), Str(<<>>)}

\* the three categories the adapters use, an unknown one, and an unknown one
\* that names a property inherited from Object.prototype
CacheTypes == {"wiki", "rss", "ddg", "other", "constructor", "__proto__"}

NoCall == [called |-> FALSE]

IdleH == [p \in {} |-> NoCall]

Tick ==
    /\ now < MaxTicks * ClockStep
    /\ now' = now + ClockStep
    /\ UNCHANGED <<cache, lastSet, lastGet, h, fetches, started, feedUrls, g,
                 wikiNodeCache, pt, ptLog, checkTimer>>

SetCache(key, data, type) ==
    /\ lastSet.n < MaxSets
    /\ cache' = setCache(cache, key, data, type, now)
    /\ lastSet' = [n |-> lastSet.n + 1,
                   calls |-> MapSet(lastSet.calls, key,
                                    [at |-> now, data |-> data, type |-> type])]
    /\ lastGet' = NoCall
    /\ UNCHANGED <<now, h, fetches, started, feedUrls, g, wikiNodeCache, pt, ptLog, checkTimer>>

GetCache(key) ==
    /\ lastGet' = [called |-> TRUE, key |-> key, at |-> now,
                   ret |-> getCacheRet(cache, key, now)]
    /\ cache' = getCacheMap(cache, key, now)
    /\ UNCHANGED <<now, lastSet, h, fetches, started, feedUrls, g, wikiNodeCache,
                 pt, ptLog, checkTimer>>

InitCache ==
    /\ now = 0
    /\ cache = EmptyMap
    /\ lastSet = [n |-> 0, calls |-> EmptyMap]
    /\ lastGet = NoCall
    /\ h = IdleH
    /\ fetches = EmptyMap
    /\ started = [req |-> 0, pre |-> 0]
    /\ feedUrls = <<>>
    /\ g = NoCall
    /\ wikiNodeCache = EmptyMap
    /\ pt = IdleH
    /\ ptLog = <<>>
    /\ checkTimer = NoCall

NextCache ==
    \/ Tick
    \/ \E key \in CacheKeys, data \in CacheValues, type \in CacheTypes :
          SetCache(key, data, type)
    \/ \E key \in CacheKeys : GetCache(key)

SpecCache == InitCache /\ [][NextCache]_vars

\* the duration the contract gives a category: its configured TTL, or the
\* default for a category that is not configured
ContractTTL(type) == IF type \in DOMAIN TTL THEN TTL[type] ELSE DefaultTTL

\* the last getCache call, on a key that setCache was called on before it,
\* returned the value set when it ran before the set's expiry time, and
\* returned null and left the key out of the map otherwise
GetAgreesWithSet(types) ==
    (lastGet.called /\ MapHas(lastSet.calls, lastGet.key)
        /\ lastSet.calls[lastGet.key].type \in types) =>
        LET s == lastSet.calls[lastGet.key] IN
          IF lastGet.at < s.at + ContractTTL(s.type)
          THEN lastGet.ret = s.data
          ELSE lastGet.ret = Null /\ ~MapHas(cache, lastGet.key)

\* C1: for every category (wiki, rss, ddg, and any unknown one, which gets the
\* default duration), getCache(k) after setCache(k, v, category) at time t
\* returns v strictly before t + TTL(category), and at or after that time
\* returns null and leaves k removed from the cache map.
C1_GetAfterSet == GetAgreesWithSet(CacheTypes)

\* C1, for the categories that name no property of Object.prototype
C1_GetAfterSetOwnOrAbsent == GetAgreesWithSet(CacheTypes \ ObjectPrototype)

\* a getCache at exactly t + TTL(category) has run and returned null
C1_ExpiredAtBoundary ==
    /\ lastGet.called /\ MapHas(lastSet.calls, lastGet.key)
    /\ lastSet.calls[lastGet.key].type \notin ObjectPrototype
    /\ lastGet.at = lastSet.calls[lastGet.key].at
                      + ContractTTL(lastSet.calls[lastGet.key].type)
    /\ lastGet.ret = Null

-----------------------------------------------------------------------------
(* Strings, and the feed adapter's filter (fetchRSSFeeds)                    *)

Min(a, b) == IF a < b THEN a ELSE b

Arr(a) == [t |-> "arr", a |-> a]

\* Array.prototype.join(',') of an array of strings
RECURSIVE JoinComma(_)
JoinComma(a) ==
    IF Len(a) = 0 THEN <<>>
    ELSE IF Len(a) = 1 THEN a[1].s
    ELSE a[1].s \o <<",">> \o JoinComma(Tail(a))

\* `${v}`
ToStr(v) ==
    CASE v.t = "str" -> v.s
      [] v.t = "num" -> <<ToString(v.n)>>
      [] v.t = "undef" -> <<"undefined">>
      [] v.t = "arr" -> JoinComma(v.a)
      [] OTHER -> <<"null">>

LowerChar(c) == IF c = "A" THEN "a" ELSE IF c = "B" THEN "b" ELSE c

\* s.toLowerCase()
ToLower(s) == [i \in 1..Len(s) |-> LowerChar(s[i])]

\* hay.includes(needle)
Includes(hay, needle) ==
    \E i \in 0..(Len(hay) - Len(needle)) :
        SubSeq(hay, i + 1, i + Len(needle)) = needle

\* the filter callback throws a TypeError when it reaches prompt.toLowerCase()
\* on a prompt that is not a string
MatchThrows(item, prompt) ==
    prompt.t # "str" /\ (Truthy(item.title) \/ Truthy(item.contentSnippet))

\* a filter callback that looks at the title alone
Matches_TitleOnly(item, prompt) ==
    Truthy(item.title) /\ Includes(ToLower(item.title.s), ToLower(prompt.s))

\* the filter callback: the prompt is a case-insensitive substring of the
\* item's title or of its snippet
Matches(item, prompt) ==
    \/ Truthy(item.title)
         /\ Includes(ToLower(item.title.s), ToLower(prompt.s))
    \/ Truthy(item.contentSnippet)
         /\ Includes(ToLower(item.contentSnippet.s), ToLower(prompt.s))

\* one article of the answer
FormatItem(item) ==
    [title |-> JsOr(item.title, Str(<<"Untitled">>)),
     description |-> JsOr(item.contentSnippet,
                          JsOr(item.content, Str(<<"No description available.">>))),
     link |-> JsOr(item.link, Str(<<"No link available.">>))]

\* [{ title: `No matching articles found for "${prompt}"` }]
NoMatch(prompt) ==
    <<[title |-> Str(<<"No matching articles found for \"">> \o ToStr(prompt) \o <<"\"">>)]>>

\* the articles without the placeholder of line 440
Articles_NoPlaceholder(parsedFeed, prompt) ==
    LET matching == SelectSeq(parsedFeed.items, LAMBDA item : Matches(item, prompt))
        first == SubSeq(matching, 1, Min(5, Len(matching)))
    IN [i \in 1..Len(first) |-> FormatItem(first[i])]

\* the articles of a parsed feed for a prompt
Articles(parsedFeed, prompt) ==
    LET matching == SelectSeq(parsedFeed.items, LAMBDA item : Matches(item, prompt))
    IN IF Len(matching) = 0 THEN NoMatch(prompt)
       ELSE LET first == SubSeq(matching, 1, Min(5, Len(matching)))
            IN [i \in 1..Len(first) |-> FormatItem(first[i])]

FeedLabel(feed) == JsOr(feed.name, feed.url)

Formatted(feed, parsedFeed, prompt) ==
    [feed |-> FeedLabel(feed), articles |-> Articles(parsedFeed, prompt)]

FeedError(feed) ==
    [feed |-> FeedLabel(feed), error |-> Str(<<"Error fetching feed">>)]

\* `rss:${feed.url}`
RssKey(feed) == Str(<<"rss:">> \o feed.url.s)

Thrown == [t |-> "throw"]

\* the try block throws: parser.parseURL rejected, or the filter threw
FeedThrows(parsedFeed, prompt) ==
    \/ parsedFeed = Thrown
    \/ \E i \in 1..Len(parsedFeed.items) : MatchThrows(parsedFeed.items[i], prompt)

\* a call setCache(key, data, type) made at time t
SetCall(key, data, type, t) == [key |-> key, data |-> data, type |-> type, at |-> t]

\* fetchRSSFeeds with a catch block that pushes nothing for a failing feed
FeedStep_DropsFailed(c, results, got, feed, parsedFeed, prompt, t) ==
    IF FeedThrows(parsedFeed, prompt)
    THEN [cache |-> c, results |-> results, got |-> Append(got, parsedFeed),
          sets |-> <<>>]
    ELSE [cache |-> setCache(c, RssKey(feed), parsedFeed, "rss", t),
          results |-> Append(results, Formatted(feed, parsedFeed, prompt)),
          got |-> Append(got, parsedFeed),
          sets |-> <<SetCall(RssKey(feed), parsedFeed, "rss", t)>>]

\* the body of the try block once parsedFeed is known (from the cache or from
\* parser.parseURL, which may have thrown): the cache and the results it
\* leaves; got records the parsedFeed each entry of results was made from,
\* sets the setCache calls made
FeedStep(c, results, got, feed, parsedFeed, prompt, t) ==
    IF FeedThrows(parsedFeed, prompt)
    THEN [cache |-> c, results |-> Append(results, FeedError(feed)),
          got |-> Append(got, parsedFeed), sets |-> <<>>]
    ELSE [cache |-> setCache(c, RssKey(feed), parsedFeed, "rss", t),
          results |-> Append(results, Formatted(feed, parsedFeed, prompt)),
          got |-> Append(got, parsedFeed),
          sets |-> <<SetCall(RssKey(feed), parsedFeed, "rss", t)>>]

\* the for loop of fetchRSSFeeds from feed number i on, up to its next await
\* (fi is the feed whose parseURL is awaited) or its end (fi > feeds.length)
RECURSIVE RssLoop(_, _, _, _, _, _, _)
RssLoop(feeds, c, results, got, i, prompt, t) ==
    IF i > Len(feeds)
    THEN [cache |-> c, results |-> results, got |-> got, fi |-> i, sets |-> <<>>]
    ELSE LET key == RssKey(feeds[i])
             cached == getCacheRet(c, key, t)
             c1 == getCacheMap(c, key, t)
         IN IF Truthy(cached)
            THEN LET step == FeedStep(c1, results, got, feeds[i], cached, prompt, t)
                     rest == RssLoop(feeds, step.cache, step.results, step.got, i + 1,
                                     prompt, t)
                 IN [rest EXCEPT !.sets = step.sets \o @]
            ELSE [cache |-> c1, results |-> results, got |-> got, fi |-> i,
                  sets |-> <<>>]

-----------------------------------------------------------------------------
(* The summary and search adapters (fetchWikipedia, fetchDuckDuckGo)         *)

\* `wiki:${query}`
WikiKey(query) == Str(<<"wiki:">> \o ToStr(query))

\* `ddg:${query}`
DdgKey(query) == Str(<<"ddg:">> \o ToStr(query))

WikiError == Str(<<"Error fetching Wikipedia.">>)

NoWikiContent == Str(<<"No Wikipedia content found.">>)

\* fetchWikipedia with a catch block that rethrows
WikiResult_Rethrows(c, key, resp, t) ==
    IF ~resp.ok \/ Len(resp.pages) = 0
    THEN [cache |-> c, ret |-> [t |-> "throw"], sets |-> <<>>]
    ELSE LET extract == JsOr(resp.pages[1].extract, Str(<<"No Wikipedia content found.">>))
         IN [cache |-> setCache(c, key, extract, "wiki", t), ret |-> extract,
             sets |-> <<SetCall(key, extract, "wiki", t)>>]

\* fetchWikipedia after its await: axios.get threw (network error, timeout,
\* non-2xx status), or answered with response.data.query.pages
WikiResult(c, key, resp, t) ==
    IF ~resp.ok \/ Len(resp.pages) = 0
    THEN [cache |-> c, ret |-> WikiError, sets |-> <<>>]
    ELSE LET extract == JsOr(resp.pages[1].extract, NoWikiContent)
         IN [cache |-> setCache(c, key, extract, "wiki", t), ret |-> extract,
             sets |-> <<SetCall(key, extract, "wiki", t)>>]

DdgError ==
    Arr(<<[title |-> Str(<<"Error fetching DuckDuckGo results">>),
           link |-> Str(<<>>), snippet |-> Str(<<>>)]>>)

\* fetchDuckDuckGo after its await
DdgResult(c, key, resp, t) ==
    IF ~resp.ok
    THEN [cache |-> c, ret |-> DdgError, sets |-> <<>>]
    ELSE LET results == IF resp.hasResults THEN resp.results ELSE <<>>
             first == SubSeq(results, 1, Min(10, Len(results)))
             formatted == Arr([i \in 1..Len(first) |->
                                 [title |-> first[i].title, link |-> first[i].link,
                                  snippet |-> first[i].snippet]])
         IN [cache |-> setCache(c, key, formatted, "ddg", t), ret |-> formatted,
             sets |-> <<SetCall(key, formatted, "ddg", t)>>]

-----------------------------------------------------------------------------
(* The aggregation variant: POST /generate, preloadFeeds, and their awaits   *)

\* feeds.json with two feeds: one with a name, one without
TwoFeeds ==
    <<[name |-> Str(<<"N">>), url |-> Str(<<"u", "1">>)],
      [name |-> Undefined, url |-> Str(<<"u", "2">>)]>>

\* feeds.json with one feed
OneFeed == <<[name |-> Str(<<"N">>), url |-> Str(<<"u", "1">>)]>>

Item(title, snippet) ==
    [title |-> title, contentSnippet |-> snippet, content |-> Undefined,
     link |-> Undefined]

Feed(items) == [t |-> "obj", items |-> items]

\* what parser.parseURL may resolve to
RawFeeds ==
    {Feed(<<Item(Str(<<"A">>), Str(<<"x">>)), Item(Str(<<"b">>), Undefined)>>),
     Feed(<<>>)}

\* two queries
Queries == {Str(<<"a">>), Str(<<"b">>)}

\* req.body.prompt: missing, empty, zero, or a query
Prompts == {Undefined, Str(<<>>), Num(0)} \cup Queries

WikiResponses ==
    {[ok |-> FALSE, pages |-> <<>>],
     [ok |-> TRUE, pages |-> <<[extract |-> Str(<<"W">>)]>>],
     [ok |-> TRUE, pages |-> <<[extract |-> Undefined]>>]}

DdgResponses ==
    {[ok |-> FALSE, hasResults |-> FALSE, results |-> <<>>],
     [ok |-> TRUE, hasResults |-> FALSE, results |-> <<>>],
     [ok |-> TRUE, hasResults |-> TRUE,
      results |-> <<[title |-> Str(<<"T">>), link |-> Str(<<"l">>),
                     snippet |-> Str(<<"s">>), extra |-> Str(<<"e">>)]>>]}

\* handlers that can be in flight at once
Slots == {1, 2}

\* POST /generate requests in one run, served one after the other
MaxRequests == 2

\* POST /generate requests in one run with overlapping handlers
MaxOverlapping == 1

\* preloadFeeds runs in one run, the one at startup included
MaxPreloads == 2

\* the clock of the aggregation variant stops after this many steps
MaxAggTicks == 2

Idle ==
    [kind |-> "idle", pc |-> "idle", prompt |-> Undefined, wikiText |-> Undefined,
     rssResults |-> <<>>, ddgResults |-> Undefined, fi |-> 0, status |-> 0,
     nUp |-> 0, nDone |-> 0, touched |-> FALSE, since |-> 0,
     wikiGot |-> NoCall, feedGot |-> <<>>, ddgGot |-> NoCall]

(* Of a handler's fields, prompt, wikiText, rssResults, ddgResults and       *)
(* status are the async function's own; pc is the await it is suspended at   *)
(* and fi the feed its loop is at.  The others record what happened to it:   *)
(* nUp the upstream calls it issued, nDone those that were answered, touched whether it called getCache or   *)
(* setCache, since the time its pending upstream call was issued, wikiGot    *)
(* and ddgGot the upstream's answers, feedGot the parsed feed (from the      *)
(* cache or from upstream, or Thrown) behind each entry of rssResults.       *)

Free(p) == h[p].pc \in {"idle", "done"}

Issued(up, key, t) == [up |-> up, key |-> key, at |-> t]

\* a guard that tests for a missing prompt only: if (prompt === undefined)
PromptMissing_OnlyUndefined(prompt) == prompt.t = "undef"

\* if (!prompt)
PromptMissing(prompt) == ~Truthy(prompt)

(* A handler runs from one completed I/O to its next await of I/O without    *)
(* another handler running in between.  Each operator below is one such run  *)
(* of the async function hd with the cache c at time t: the cache and the    *)
(* handler it leaves, the upstream calls it issued and the setCache calls it *)
(* made.                                                                     *)

\* res.json({wikipedia, rss, duckduckgo}), or the handler's catch when an
\* awaited adapter rejected
Respond(hd, c) ==
    [cache |-> c,
     handler |-> [hd EXCEPT !.pc = "done",
                     !.status = IF hd.wikiText = Thrown \/ hd.ddgResults = Thrown
                                THEN 500 ELSE 200],
     issued |-> <<>>, sets |-> <<>>]

\* await fetchDuckDuckGo(prompt), up to its return or its axios.get
DdgStage(hd, c, t) ==
    LET key == DdgKey(hd.prompt)
        cached == getCacheRet(c, key, t)
        c1 == getCacheMap(c, key, t)
    IN IF Truthy(cached)
       THEN Respond([hd EXCEPT !.ddgResults = cached], c1)
       ELSE [cache |-> c1,
             handler |-> [hd EXCEPT !.pc = "ddg_http", !.nUp = @ + 1, !.since = t],
             issued |-> <<Issued("ddg", key, t)>>, sets |-> <<>>]

\* fetchRSSFeeds(feeds, prompt) from feed number i on, up to its next
\* parser.parseURL or to its return, and what follows its return: the search
\* adapter in POST /generate, nothing in preloadFeeds
RssStage(feeds, hd, c, results, got, i, t) ==
    LET r == RssLoop(feeds, c, results, got, i, hd.prompt, t)
        hd1 == [hd EXCEPT !.rssResults = r.results, !.feedGot = r.got, !.fi = r.fi,
                    !.touched = TRUE]
    IN IF r.fi <= Len(feeds)
       THEN [cache |-> r.cache,
             handler |-> [hd1 EXCEPT !.pc = "rss_http", !.nUp = @ + 1, !.since = t],
             issued |-> <<Issued("rss", RssKey(feeds[r.fi]), t)>>, sets |-> r.sets]
       ELSE IF hd.kind = "pre"
       THEN [cache |-> r.cache, handler |-> [hd1 EXCEPT !.pc = "done"],
             issued |-> <<>>, sets |-> r.sets]
       ELSE [DdgStage(hd1, r.cache, t) EXCEPT !.sets = r.sets \o @]

\* what follows the return of fetchWikipedia in POST /generate
AfterWiki(feeds, hd, c, t) ==
    IF hd.wikiText = Thrown THEN Respond(hd, c)
    ELSE RssStage(feeds, hd, c, <<>>, <<>>, 1, t)

\* POST /generate from its start: the 400 answer, or fetchWikipedia up to its
\* return (a cache hit) or its axios.get
Generate(feeds, prompt, c, t) ==
    LET hd == [Idle EXCEPT !.kind = "req", !.prompt = prompt]
    IN IF PromptMissing(prompt)
       THEN [cache |-> c, handler |-> [hd EXCEPT !.pc = "done", !.status = 400],
             issued |-> <<>>, sets |-> <<>>]
       ELSE LET key == WikiKey(prompt)
                cached == getCacheRet(c, key, t)
                c1 == getCacheMap(c, key, t)
            IN IF Truthy(cached)
               THEN AfterWiki(feeds, [hd EXCEPT !.wikiText = cached, !.touched = TRUE],
                              c1, t)
               ELSE [cache |-> c1,
                     handler |-> [hd EXCEPT !.pc = "wiki_http", !.nUp = 1,
                                      !.touched = TRUE, !.since = t],
                     issued |-> <<Issued("wiki", key, t)>>, sets |-> <<>>]

\* preloadFeeds(): fetchRSSFeeds(feedUrls, '')
Preload(feeds, c, t) ==
    RssStage(feeds, [Idle EXCEPT !.kind = "pre", !.prompt = Str(<<>>)], c, <<>>, <<>>,
             1, t)

UNCHANGED_others == UNCHANGED <<feedUrls, lastGet, g, wikiNodeCache, pt, ptLog, checkTimer>>

\* the last setCache call on each key after the calls of a run, in order
RECURSIVE Latest(_, _)
Latest(calls, sets) ==
    IF sets = <<>> THEN calls
    ELSE Latest(MapSet(calls, sets[1].key,
                       [at |-> sets[1].at, data |-> sets[1].data, type |-> sets[1].type]),
                Tail(sets))

NoFetches == [n |-> 0, last |-> 0, fills |-> <<>>, got |-> 0]

FetchesOf(log, key) == IF MapHas(log, key) THEN log[key] ELSE NoFetches

\* the upstream calls issued, counted per key with the time of the last one
Count(log, issued) ==
    IF issued = <<>> THEN log
    ELSE LET key == issued[1].key
         IN MapSet(log, key, [FetchesOf(log, key) EXCEPT !.n = @ + 1,
                                                         !.last = issued[1].at])

\* an upstream call for key, issued at time since, was answered at time t:
\* fills keeps the issue times of the last two calls that were answered with
\* a value, got the time the last of them was answered
Answered(log, key, since, ok, t) ==
    IF ~ok THEN log
    ELSE LET f == FetchesOf(log, key)
         IN MapSet(log, key,
                   [f EXCEPT !.fills = IF Len(@) = 0 THEN <<since>>
                                       ELSE <<@[Len(@)], since>>,
                             !.got = t])

Ran(p, r, log, sets) ==
    /\ lastSet' = [lastSet EXCEPT !.calls = Latest(@, sets \o r.sets)]
    /\ cache' = r.cache
    /\ h' = [h EXCEPT ![p] = r.handler]
    /\ fetches' = Count(log, r.issued)

\* a POST /generate request arrives
StartGenerate(p, prompt) ==
    /\ Free(p)
    /\ started' = [started EXCEPT !.req = @ + 1]
    /\ Ran(p, Generate(feedUrls, prompt, cache, now), fetches, <<>>)
    /\ UNCHANGED now
    /\ UNCHANGED_others

\* axios.get of fetchWikipedia settles
WikiResponse(p, resp) ==
    /\ h[p].pc = "wiki_http"
    /\ LET r == WikiResult(cache, WikiKey(h[p].prompt), resp, now)
       IN Ran(p, AfterWiki(feedUrls, [h[p] EXCEPT !.wikiText = r.ret, !.wikiGot = resp,
                                            !.nDone = @ + 1],
                           r.cache, now),
              Answered(fetches, WikiKey(h[p].prompt), h[p].since, resp.ok, now), r.sets)
    /\ UNCHANGED <<now, started>>
    /\ UNCHANGED_others

\* parser.parseURL settles: the rest of the try block for that feed, then the
\* loop goes on
RssResponse(p, parsedFeed) ==
    /\ h[p].pc = "rss_http"
    /\ LET feed == feedUrls[h[p].fi]
           step == FeedStep(cache, h[p].rssResults, h[p].feedGot, feed, parsedFeed,
                            h[p].prompt, now)
       IN Ran(p, RssStage(feedUrls, [h[p] EXCEPT !.nDone = @ + 1], step.cache, step.results, step.got,
                          h[p].fi + 1, now),
              Answered(fetches, RssKey(feed), h[p].since, parsedFeed # Thrown, now), step.sets)
    /\ UNCHANGED <<now, started>>
    /\ UNCHANGED_others

\* axios.get of fetchDuckDuckGo settles
DdgResponse(p, resp) ==
    /\ h[p].pc = "ddg_http"
    /\ LET r == DdgResult(cache, DdgKey(h[p].prompt), resp, now)
       IN Ran(p, Respond([h[p] EXCEPT !.ddgResults = r.ret, !.ddgGot = resp,
                                  !.nDone = @ + 1], r.cache),
              Answered(fetches, DdgKey(h[p].prompt), h[p].since, resp.ok, now), r.sets)
    /\ UNCHANGED <<now, started>>
    /\ UNCHANGED_others

\* setInterval(preloadFeeds, 10 * 60 * 1000): run number k is due at k * 10 min
StartPreload(p) ==
    /\ Free(p)
    /\ started.pre < MaxPreloads
    /\ now >= started.pre * 10 * Minute
    /\ started' = [started EXCEPT !.pre = @ + 1]
    /\ Ran(p, Preload(feedUrls, cache, now), fetches, <<>>)
    /\ UNCHANGED now
    /\ UNCHANGED_others

AggTick ==
    /\ now < MaxAggTicks * ClockStep
    /\ now' = now + ClockStep
    /\ UNCHANGED <<cache, h, fetches, started, lastSet>>
    /\ UNCHANGED_others

\* the state once the module has loaded: preloadFeeds() has run up to its
\* first await in slot 1
InitLoaded(feeds) ==
    /\ now = 0
    /\ feedUrls = feeds
    /\ cache = Preload(feeds, EmptyMap, 0).cache
    /\ h = [p \in Slots |-> IF p = 1 THEN Preload(feeds, EmptyMap, 0).handler ELSE Idle]
    /\ fetches = Count(EmptyMap, Preload(feeds, EmptyMap, 0).issued)
    /\ started = [req |-> 0, pre |-> 1]
    /\ lastSet = [n |-> 0, calls |-> Latest(EmptyMap, Preload(feeds, EmptyMap, 0).sets)]
    /\ lastGet = NoCall
    /\ g = NoCall
    /\ wikiNodeCache = EmptyMap
    /\ pt = IdleH
    /\ ptLog = <<>>
    /\ checkTimer = NoCall

Busy == {p \in Slots : ~Free(p)}

\* The aggregation variant with two feeds and no time passing: requests are
\* served one at a time, the first after the startup preload has finished.
InitAgg == InitLoaded(TwoFeeds)

NextAgg ==
    \/ \E prompt \in Prompts :
          Busy = {} /\ started.req < MaxRequests /\ StartGenerate(2, prompt)
    \/ \E p \in Slots, resp \in WikiResponses : WikiResponse(p, resp)
    \/ \E p \in Slots, parsedFeed \in RawFeeds \cup {Thrown} : RssResponse(p, parsedFeed)
    \/ \E p \in Slots, resp \in DdgResponses : DdgResponse(p, resp)

SpecAgg == InitAgg /\ [][NextAgg]_vars

\* The feed adapter under the clock, with one feed: request handlers and
\* preloader runs overlap; the summary and search upstreams are down.
InitFeed == InitLoaded(OneFeed)

Down(responses) == {resp \in responses : ~resp.ok}

NextFeed ==
    \/ AggTick
    \/ \E p \in Slots, prompt \in Queries :
          started.req < MaxOverlapping /\ StartGenerate(p, prompt)
    \/ \E p \in Slots, resp \in Down(WikiResponses) : WikiResponse(p, resp)
    \/ \E p \in Slots, parsedFeed \in RawFeeds \cup {Thrown} : RssResponse(p, parsedFeed)
    \/ \E p \in Slots, resp \in Down(DdgResponses) : DdgResponse(p, resp)
    \/ \E p \in Slots : StartPreload(p)

SpecFeed == InitFeed /\ [][NextFeed]_vars

\* The aggregation variant with prompts that are a string, a number and an
\* array: two requests, served one after the other once the startup preload
\* has finished, the first in slot 1 and the second in slot 2.
KeyPrompts == {Str(<<"1">>), Num(1), Arr(<<Str(<<"1">>)>>)}

InitKeys == InitLoaded(OneFeed)

NextKeys ==
    \/ \E prompt \in KeyPrompts :
          /\ Busy = {}
          /\ started.req < Cardinality(Slots)
          /\ StartGenerate(started.req + 1, prompt)
    \/ \E p \in Slots, resp \in WikiResponses : WikiResponse(p, resp)
    \/ \E p \in Slots, parsedFeed \in RawFeeds \cup {Thrown} : RssResponse(p, parsedFeed)
    \/ \E p \in Slots, resp \in DdgResponses : DdgResponse(p, resp)

SpecKeys == InitKeys /\ [][NextKeys]_vars

\* The feed adapter's filter on a feed of nine items: one feed, a request
\* that overlaps the startup preload or follows it, the summary and search
\* upstreams down.
LinkedItem(title, snippet, link) ==
    [title |-> title, contentSnippet |-> snippet, content |-> Undefined, link |-> link]

NineItems ==
    Feed(<<LinkedItem(Str(<<"a">>), Undefined, Str(<<"1">>)),
           LinkedItem(Str(<<"c">>), Str(<<"x">>), Str(<<"2">>)),
           LinkedItem(Str(<<"A">>), Undefined, Str(<<"3">>)),
           LinkedItem(Undefined, Str(<<"x", "a">>), Str(<<"4">>)),
           LinkedItem(Str(<<"c", "a">>), Undefined, Str(<<"5">>)),
           LinkedItem(Str(<<"b">>), Str(<<>>), Str(<<"6">>)),
           LinkedItem(Undefined, Undefined, Str(<<"7">>)),
           LinkedItem(Str(<<"a">>), Str(<<"c">>), Str(<<"8">>)),
           LinkedItem(Str(<<"A", "b">>), Undefined, Undefined)>>)

FilterFeeds == {NineItems, Feed(<<>>)}

FilterQueries == {Str(<<"a">>), Str(<<"A", "B">>), Str(<<"c">>), Str(<<"d">>)}

InitFilter == InitLoaded(OneFeed)

NextFilter ==
    \/ \E prompt \in FilterQueries :
          started.req < MaxOverlapping /\ StartGenerate(2, prompt)
    \/ \E p \in Slots, resp \in Down(WikiResponses) : WikiResponse(p, resp)
    \/ \E p \in Slots, parsedFeed \in FilterFeeds \cup {Thrown} : RssResponse(p, parsedFeed)
    \/ \E p \in Slots, resp \in Down(DdgResponses) : DdgResponse(p, resp)

SpecFilter == InitFilter /\ [][NextFilter]_vars

-----------------------------------------------------------------------------
(* The generative variant: fetchRSS, POST /generate with the Gemini fallback  *)
(* loop and its streaming reader (src/server.js 1-223)                       *)

\* s.split('\n').slice(0, n).join('\n')
RECURSIVE TakeLines(_, _)
TakeLines(s, n) ==
    IF s = <<>> THEN <<>>
    ELSE IF Head(s) = "\n"
         THEN IF n = 1 THEN <<>> ELSE <<"\n">> \o TakeLines(Tail(s), n - 1)
         ELSE <<Head(s)>> \o TakeLines(Tail(s), n)

\* fetchWikipedia of the generative variant after its await: it keeps the
\* first five lines of the extract
WikiResultTrimmed(c, key, resp, t) ==
    IF ~resp.ok \/ Len(resp.pages) = 0
    THEN [cache |-> c, ret |-> WikiError]
    ELSE LET extract == JsOr(resp.pages[1].extract, NoWikiContent)
             trimmed == Str(TakeLines(extract.s, 5))
         IN [cache |-> setCache(c, key, trimmed, "wiki", t), ret |-> trimmed]

\* feed.items.slice(0, 5).map(item => `- ${item.title} (${item.link})`).join('\n')
RECURSIVE JoinLines(_)
JoinLines(lines) ==
    IF Len(lines) = 0 THEN <<>>
    ELSE IF Len(lines) = 1 THEN lines[1]
    ELSE lines[1] \o <<"\n">> \o JoinLines(Tail(lines))

Headlines(feed) ==
    LET first == SubSeq(feed.items, 1, Min(5, Len(feed.items)))
    IN Str(JoinLines([i \in 1..Len(first) |->
                        <<"- ">> \o ToStr(first[i].title) \o <<" (">>
                           \o ToStr(first[i].link) \o <<")">>]))

\* `rss:${feedUrl}`
RssUrlKey(feedUrl) == Str(<<"rss:">> \o feedUrl.s)

\* fetchRSS after its await
FetchRssResult(c, feedUrl, parsedFeed, t) ==
    IF parsedFeed = Thrown
    THEN [cache |-> c, ret |-> Str(<<"Error fetching RSS from ">> \o feedUrl.s)]
    ELSE [cache |-> setCache(c, RssUrlKey(feedUrl), Headlines(parsedFeed), "rss", t),
          ret |-> Headlines(parsedFeed)]

Pending == [t |-> "pending"]

\* feedUrls.map((url) => fetchRSS(url)) up to the awaits: every call runs its
\* getCache at once; results holds the cached value or Pending per feed
RECURSIVE FetchRssAll(_, _, _, _, _)
FetchRssAll(feeds, c, results, i, t) ==
    IF i > Len(feeds) THEN [cache |-> c, results |-> results]
    ELSE LET key == RssUrlKey(feeds[i])
             cached == getCacheRet(c, key, t)
         IN FetchRssAll(feeds, getCacheMap(c, key, t),
                        Append(results, IF Truthy(cached) THEN cached ELSE Pending),
                        i + 1, t)

PendingIn(results) == {i \in 1..Len(results) : results[i] = Pending}

\* feedUrls.map((url, i) => `Feed: ${url}\n${rssResults[i]}`).join('\n\n')
RECURSIVE RssText(_, _, _)
RssText(feeds, results, i) ==
    IF i > Len(feeds) THEN <<>>
    ELSE <<"Feed: ">> \o feeds[i].s \o <<"\n">> \o ToStr(results[i])
           \o (IF i < Len(feeds) THEN <<"\n", "\n">> ELSE <<>>)
           \o RssText(feeds, results, i + 1)

\* a finalPrompt without the section of the headlines
FinalPrompt_NoHeadlines(prompt, wikiText, rssText) ==
    Str(<<"\nYou are a news & trivia assistant. The user asked: \"">> \o ToStr(prompt)
        \o <<"\"\n\nWikipedia background:\n">> \o ToStr(wikiText)
        \o <<"\n\nImportant: Use the info above. Summarize naturally. Include Wikipedia context.\n">>)

\* the template literal of finalPrompt (the pictographs of its headings are
\* left out of the tokens)
FinalPrompt(prompt, wikiText, rssText) ==
    Str(<<"\nYou are a news & trivia assistant. The user asked: \"">> \o ToStr(prompt)
        \o <<"\"\n\nWikipedia background:\n">> \o ToStr(wikiText)
        \o <<"\n\nLatest headlines from RSS feeds:\n">> \o rssText
        \o <<"\n\nImportant: Use the info above. Summarize naturally. Include Wikipedia context.\n">>)

\* const models = ['gemini-2.0-flash', 'gemini-1.5-flash']
Models == <<"gemini-2.0-flash", "gemini-1.5-flash">>

AllFailedMarker == <<"Error: All Gemini models and API keys failed.">>

\* the (key, model) pair of attempt number a of the nested loops: for each
\* key, each model
AttemptAt(keys, a) ==
    [key |-> keys[((a - 1) \div Len(Models)) + 1],
     model |-> Models[((a - 1) % Len(Models)) + 1]]

NumAttempts(keys) == Len(keys) * Len(Models)

\* process.env.GEMINI_API_KEY_1 / _2, each set or not
KeyConfigs == {<<>>, <<"key1">>, <<"key2">>, <<"key1", "key2">>}

\* feedsConfig.feeds of the generative variant
GenFeeds == <<Str(<<"u", "1">>)>>

\* the bodies the generative upstream may answer with: sequences of chunks
\* of bytes (97 is 'a'; 195 169 are the two bytes of U+00E9)
GenBodies == {<<<<97>>>>, <<<<195>>, <<169>>>>}

\* how the fetch of an attempt may settle: it rejected, or answered with a
\* status that is not ok, or answered ok with a body
GenAnswers ==
    {[kind |-> "rejected", body |-> <<>>], [kind |-> "status", body |-> <<>>]}
      \cup {[kind |-> "ok", body |-> body] : body \in GenBodies}

GenWikiResponses ==
    WikiResponses \cup
    {[ok |-> TRUE,
      pages |-> <<[extract |-> Str(<<"1", "\n", "2", "\n", "3", "\n", "4", "\n",
                                     "5", "\n", "6">>)]>>]}

GenIdle ==
    [pc |-> "idle", prompt |-> Undefined, wikiText |-> Undefined, rss |-> <<>>,
     finalPrompt |-> Undefined, streaming |-> FALSE, att |-> 0, started |-> <<>>,
     failed |-> 0, answers |-> <<>>, out |-> <<>>, success |-> FALSE,
     ended |-> FALSE, status |-> 0, nUp |-> 0, touched |-> FALSE]

(* Of these fields, att is the position of the nested loops, out what        *)
(* res.write has been given (att says which attempt an entry relays; att 0   *)
(* is the terminal marker), success the flag of the source; started lists    *)
(* the fetch calls issued, answers how each of them settled, failed counts   *)
(* the attempts that ended in the catch block.                               *)

\* if (!success) res.write(...); res.end()
Finish(gd) ==
    [gd EXCEPT !.pc = "done", !.ended = TRUE, !.status = 200,
               !.out = IF gd.success THEN @
                       ELSE Append(@, [att |-> 0, idx |-> 0, data |-> AllFailedMarker])]

\* the loops reach attempt number a: its fetch is issued, or the loops end
StartAttempt(gd, a) ==
    IF a > NumAttempts(gd.keys) THEN Finish(gd)
    ELSE [gd EXCEPT !.pc = "gen_fetch", !.att = a, !.nUp = @ + 1,
                    !.started = Append(@, [key |-> AttemptAt(gd.keys, a).key,
                                           model |-> AttemptAt(gd.keys, a).model,
                                           text |-> gd.finalPrompt])]

\* an attempt ended in the catch block: the inner loop goes on
AttemptFailed(gd) == StartAttempt([gd EXCEPT !.failed = @ + 1], gd.att + 1)

\* the handler once wikiText and every rssResults[i] are known: the prompt,
\* the keys, the header, and the first attempt
BeginLoop(gd, feeds) ==
    LET gd1 == [gd EXCEPT !.finalPrompt =
                   FinalPrompt(gd.prompt, gd.wikiText, RssText(feeds, gd.rss, 1))]
    IN IF Len(gd.keys) = 0
       THEN [gd1 EXCEPT !.pc = "done", !.status = 500, !.ended = TRUE]
       ELSE StartAttempt([gd1 EXCEPT !.streaming = TRUE], 1)

\* the handler after await fetchWikipedia(prompt): the fetchRSS calls
BeginRss(gd, feeds, c, t) ==
    LET r == FetchRssAll(feeds, c, <<>>, 1, t)
        gd1 == [gd EXCEPT !.rss = r.results,
                          !.nUp = @ + Cardinality(PendingIn(r.results))]
    IN [cache |-> r.cache,
        g |-> IF PendingIn(r.results) = {} THEN BeginLoop(gd1, feeds)
              ELSE [gd1 EXCEPT !.pc = "rss_http"]]

UNCHANGED_notGen ==
    UNCHANGED <<now, feedUrls, lastSet, lastGet, h, fetches, started, wikiNodeCache,
                pt, ptLog, checkTimer>>

\* a POST /generate request arrives
GenRequest(prompt) ==
    /\ g.pc = "idle"
    /\ IF ~Truthy(prompt)
       THEN /\ g' = [g EXCEPT !.pc = "done", !.prompt = prompt, !.status = 400,
                              !.ended = TRUE]
            /\ UNCHANGED cache
       ELSE LET key == WikiKey(prompt)
                cached == getCacheRet(cache, key, now)
                c1 == getCacheMap(cache, key, now)
                gd == [g EXCEPT !.prompt = prompt, !.touched = TRUE]
            IN IF Truthy(cached)
               THEN LET r == BeginRss([gd EXCEPT !.wikiText = cached], feedUrls, c1, now)
                    IN g' = r.g /\ cache' = r.cache
               ELSE /\ g' = [gd EXCEPT !.pc = "wiki_http", !.nUp = 1]
                    /\ cache' = c1
    /\ UNCHANGED_notGen

\* axios.get of fetchWikipedia settles
GenWikiResponse(resp) ==
    /\ g.pc = "wiki_http"
    /\ LET w == WikiResultTrimmed(cache, WikiKey(g.prompt), resp, now)
           r == BeginRss([g EXCEPT !.wikiText = w.ret], feedUrls, w.cache, now)
       IN g' = r.g /\ cache' = r.cache
    /\ UNCHANGED_notGen

\* parser.parseURL of one fetchRSS call of the handler settles; Promise.all
\* resolves with the last one
GenRssResponse(i, parsedFeed) ==
    /\ g.pc = "rss_http"
    /\ i \in PendingIn(g.rss)
    /\ LET r == FetchRssResult(cache, feedUrls[i], parsedFeed, now)
           gd == [g EXCEPT !.rss[i] = r.ret]
       IN /\ cache' = r.cache
          /\ g' = IF PendingIn(gd.rss) = {} THEN BeginLoop(gd, feedUrls) ELSE gd
    /\ UNCHANGED_notGen

\* parser.parseURL of one fetchRSS call of the startup preloadFeeds settles
GenPreloadResponse(i, parsedFeed) ==
    /\ i \in g.pre
    /\ cache' = FetchRssResult(cache, feedUrls[i], parsedFeed, now).cache
    /\ g' = [g EXCEPT !.pre = @ \ {i}]
    /\ UNCHANGED_notGen

(* fetch is node-fetch (import fetch from 'node-fetch', line 4), whose        *)
(* Response.body is a Node.js Readable and has no getReader method.  When an *)
(* attempt's fetch answers ok, response.body.getReader() at line 167 throws  *)
(* a TypeError, which the catch block of the attempt takes like any other    *)
(* failure: lines 168-175 (the reads, the writes, success = true, break      *)
(* outer) never run.                                                         *)

\* the fetch of the current attempt settles: it rejected, or answered with a
\* status that is not ok (line 162 throws), or answered ok (line 167 throws);
\* the catch block logs and the inner loop goes on
GenFetchResponse(answer) ==
    /\ g.pc = "gen_fetch"
    /\ g' = AttemptFailed([g EXCEPT !.answers = Append(@, answer)])
    /\ UNCHANGED cache
    /\ UNCHANGED_notGen

\* the state once the module has loaded: preloadFeeds() has issued one
\* fetchRSS call per feed.  The clock stays where it is, so the behaviours
\* are those of the first ten minutes, before setInterval calls preloadFeeds
\* again.
InitGenWith(feeds, configs) ==
    /\ now = 0
    /\ feedUrls = feeds
    /\ cache = EmptyMap
    /\ \E keys \in configs :
          g = GenIdle @@ [keys |-> keys, pre |-> 1..Len(feeds)]
    /\ h = IdleH
    /\ fetches = EmptyMap
    /\ started = [req |-> 0, pre |-> 1]
    /\ lastSet = [n |-> 0, calls |-> EmptyMap]
    /\ lastGet = NoCall
    /\ wikiNodeCache = EmptyMap
    /\ pt = IdleH
    /\ ptLog = <<>>
    /\ checkTimer = NoCall

NextGen ==
    \/ \E prompt \in Prompts : GenRequest(prompt)
    \/ \E resp \in GenWikiResponses : GenWikiResponse(resp)
    \/ \E i \in 1..Len(feedUrls), parsedFeed \in RawFeeds \cup {Thrown} :
          GenRssResponse(i, parsedFeed)
    \/ \E i \in 1..Len(feedUrls), parsedFeed \in RawFeeds \cup {Thrown} :
          GenPreloadResponse(i, parsedFeed)
    \/ \E answer \in GenAnswers : GenFetchResponse(answer)

InitGen == InitGenWith(GenFeeds, KeyConfigs)

SpecGen == InitGen /\ [][NextGen]_vars

\* The generative variant with the timers that bound its upstream calls:
\* axios.get carries timeout: 15000 and rejects when it fires, and
\* parser.parseURL rejects when the parser's default timeout fires, so a
\* pending summary or feed call is always settled in the end.  fetch
\* carries no timeout: nothing settles it if the upstream stays silent.
TimersFire ==
    /\ WF_vars(GenWikiResponse([ok |-> FALSE, pages |-> <<>>]))
    /\ WF_vars(\E i \in 1..Len(feedUrls) : GenRssResponse(i, Thrown))
    /\ WF_vars(\E i \in 1..Len(feedUrls) : GenPreloadResponse(i, Thrown))

SpecGenTimers == InitGen /\ [][NextGen]_vars /\ TimersFire

\* The generative variant with two feeds and both keys set.
GenTwoFeeds == <<Str(<<"u", "1">>), Str(<<"u", "2">>)>>

InitPrompt == InitGenWith(GenTwoFeeds, {<<"key1", "key2">>})

NextPrompt ==
    \/ \E prompt \in Prompts : GenRequest(prompt)
    \/ \E resp \in GenWikiResponses : GenWikiResponse(resp)
    \/ \E i \in 1..Len(feedUrls), parsedFeed \in RawFeeds \cup {Thrown} :
          GenRssResponse(i, parsedFeed)
    \/ \E i \in 1..Len(feedUrls), parsedFeed \in RawFeeds \cup {Thrown} :
          GenPreloadResponse(i, parsedFeed)
    \/ \E answer \in {a \in GenAnswers : a.kind # "status"} : GenFetchResponse(answer)

SpecPrompt == InitPrompt /\ [][NextPrompt]_vars

-----------------------------------------------------------------------------
(* The JSON variant (src/unnamed/part_000 1-161): POST /generate answers     *)
(* with the summary and the feeds' headlines as JSON.  Its cache, fetchRSS   *)
(* and preloadFeeds are those of the generative variant; its fetchWikipedia  *)
(* keeps the whole extract.                                                  *)

\* res.json({ wikipedia: wikiText, rss: rssText })
JsonRespond(gd, feeds) ==
    [gd EXCEPT !.pc = "done", !.status = 200, !.ended = TRUE,
               !.body = [t |-> "obj", wikipedia |-> gd.wikiText,
                         rss |-> Str(RssText(feeds, gd.rss, 1))]]

\* the handler after await fetchWikipedia(prompt): the fetchRSS calls
JsonBeginRss(gd, feeds, c, t) ==
    LET r == FetchRssAll(feeds, c, <<>>, 1, t)
        gd1 == [gd EXCEPT !.rss = r.results,
                          !.nUp = @ + Cardinality(PendingIn(r.results))]
    IN [cache |-> r.cache,
        g |-> IF PendingIn(r.results) = {} THEN JsonRespond(gd1, feeds)
              ELSE [gd1 EXCEPT !.pc = "rss_http"]]

\* a POST /generate request arrives
JsonRequest(prompt) ==
    /\ g.pc = "idle"
    /\ IF ~Truthy(prompt)
       THEN /\ g' = [g EXCEPT !.pc = "done", !.prompt = prompt, !.status = 400,
                              !.ended = TRUE,
                              !.body = [t |-> "obj", error |-> Str(<<"Missing prompt">>)]]
            /\ UNCHANGED cache
       ELSE LET key == WikiKey(prompt)
                cached == getCacheRet(cache, key, now)
                c1 == getCacheMap(cache, key, now)
                gd == [g EXCEPT !.prompt = prompt, !.touched = TRUE]
            IN IF Truthy(cached)
               THEN LET r == JsonBeginRss([gd EXCEPT !.wikiText = cached], feedUrls, c1, now)
                    IN g' = r.g /\ cache' = r.cache
               ELSE /\ g' = [gd EXCEPT !.pc = "wiki_http", !.nUp = 1]
                    /\ cache' = c1
    /\ UNCHANGED_notGen

\* axios.get of fetchWikipedia settles
JsonWikiResponse(resp) ==
    /\ g.pc = "wiki_http"
    /\ LET w == WikiResult(cache, WikiKey(g.prompt), resp, now)
           r == JsonBeginRss([g EXCEPT !.wikiText = w.ret], feedUrls, w.cache, now)
       IN g' = r.g /\ cache' = r.cache
    /\ UNCHANGED_notGen

\* parser.parseURL of one fetchRSS call of the handler settles; Promise.all
\* resolves with the last one
JsonRssResponse(i, parsedFeed) ==
    /\ g.pc = "rss_http"
    /\ i \in PendingIn(g.rss)
    /\ LET r == FetchRssResult(cache, feedUrls[i], parsedFeed, now)
           gd == [g EXCEPT !.rss[i] = r.ret]
       IN /\ cache' = r.cache
          /\ g' = IF PendingIn(gd.rss) = {} THEN JsonRespond(gd, feedUrls) ELSE gd
    /\ UNCHANGED_notGen

\* the state once the module has loaded: preloadFeeds() has issued one
\* fetchRSS call per feed
InitJson ==
    /\ now = 0
    /\ feedUrls = GenTwoFeeds
    /\ cache = EmptyMap
    /\ g = GenIdle @@ [body |-> Undefined, pre |-> 1..Len(GenTwoFeeds)]
    /\ h = IdleH
    /\ fetches = EmptyMap
    /\ started = [req |-> 0, pre |-> 1]
    /\ lastSet = [n |-> 0, calls |-> EmptyMap]
    /\ lastGet = NoCall
    /\ wikiNodeCache = EmptyMap
    /\ pt = IdleH
    /\ ptLog = <<>>
    /\ checkTimer = NoCall

NextJson ==
    \/ \E prompt \in Prompts : JsonRequest(prompt)
    \/ \E resp \in GenWikiResponses : JsonWikiResponse(resp)
    \/ \E i \in 1..Len(feedUrls), parsedFeed \in RawFeeds \cup {Thrown} :
          JsonRssResponse(i, parsedFeed)
    \/ \E i \in 1..Len(feedUrls), parsedFeed \in RawFeeds \cup {Thrown} :
          GenPreloadResponse(i, parsedFeed)

SpecJson == InitJson /\ [][NextJson]_vars

-----------------------------------------------------------------------------
(* The passthrough endpoint GET /api/wikipedia (src/server.js 499-521)        *)

\* req.query: the parameters in the order the URL carries them, as pairs
\* <<name, value>> with distinct names
ParamNames == {"a", "b"}
ParamValues == {"1", "2"}
ParamLists ==
    {<<>>}
      \cup {<<<<n, v>>>> : n \in ParamNames, v \in ParamValues}
      \cup {ps \in (ParamNames \X ParamValues) \X (ParamNames \X ParamValues) :
              ps[1][1] # ps[2][1]}

\* JSON.stringify(params): the properties in insertion order
RECURSIVE Members(_)
Members(params) ==
    IF Len(params) = 0 THEN <<>>
    ELSE <<"\"", params[1][1], "\":\"", params[1][2], "\"">>
           \o (IF Len(params) > 1 THEN <<",">> ELSE <<>>)
           \o Members(Tail(params))

JSONStringify(params) == Str(<<"{">> \o Members(params) \o <<"}">>)

\* response.data of the upstream call: a JSON object, or an empty body
Obj(name) == [t |-> "obj", name |-> name]
PassBodies == {Obj("batchcomplete"), Str(<<>>)}

\* how axios.get may fail: the upstream answered with a status that is not
\* 2xx (the error carries the response), the 15 s timeout fired (code
\* ECONNABORTED), or the connection failed
StatusError(status, statusText, data) ==
    [t |-> "status", status |-> status, statusText |-> statusText, data |-> data]
TimedOut == [t |-> "timeout"]
PassFailures == {StatusError(404, "Not Found", Obj("missing")), TimedOut, Thrown}

\* err.message of an axios error
ErrorMessage(err) ==
    CASE err.t = "status" ->
            Str(<<"Request failed with status code ", ToString(err.status)>>)
      [] err.t = "timeout" -> Str(<<"timeout of 15000ms exceeded">>)
      [] OTHER -> Str(<<"Network Error">>)

\* wikiNodeCache.get(key) of a Map
MapGet(m, key) == IF MapHas(m, key) THEN m[key] ELSE Undefined

PassIdle == [pc |-> "idle", params |-> <<>>, key |-> Undefined, seen |-> 0]

\* requests started
MaxPassRequests == 2

UNCHANGED_notPass ==
    UNCHANGED <<now, cache, feedUrls, lastSet, lastGet, h, fetches, g, checkTimer>>

(* An entry of ptLog is one answered request: its parameters and key, hit    *)
(* whether it was answered from the cache, status and body what was sent, up *)
(* what the upstream call gave (Undefined when none was made), stored        *)
(* whether the handler wrote the cache, seen how many answers had been sent  *)
(* when the request arrived, at the time it was answered.                    *)

\* a request arrives: the key, the cache check, and on a miss the upstream
\* call is issued
PassRequest(p, params) ==
    /\ pt[p].pc = "idle"
    /\ LET cacheKey == JSONStringify(params)
           cached == MapGet(wikiNodeCache, cacheKey)
       IN IF Truthy(cached)
          THEN /\ ptLog' = Append(ptLog, [params |-> params, key |-> cacheKey,
                                          hit |-> TRUE, status |-> 200,
                                          body |-> cached, up |-> Undefined,
                                          stored |-> FALSE, seen |-> Len(ptLog),
                                          at |-> now])
               /\ UNCHANGED pt
          ELSE /\ pt' = [pt EXCEPT ![p] = [pc |-> "http", params |-> params,
                                           key |-> cacheKey, seen |-> Len(ptLog)]]
               /\ UNCHANGED ptLog
    /\ started' = [started EXCEPT !.req = @ + 1]
    /\ UNCHANGED wikiNodeCache
    /\ UNCHANGED_notPass

\* the catch block: res.status(500).json({ error: err.message })
PassCatch(err) == [status |-> 500, body |-> [t |-> "obj", error |-> ErrorMessage(err)]]

\* axios.get settles: the body is stored and sent, or the catch block answers
PassResponse(p, resp) ==
    /\ pt[p].pc = "http"
    /\ IF resp \in PassFailures
       THEN /\ ptLog' = Append(ptLog, [params |-> pt[p].params, key |-> pt[p].key,
                                       hit |-> FALSE, status |-> PassCatch(resp).status,
                                       body |-> PassCatch(resp).body, up |-> resp,
                                       stored |-> FALSE, seen |-> pt[p].seen,
                                       at |-> now])
            /\ UNCHANGED wikiNodeCache
       ELSE /\ wikiNodeCache' = MapSet(wikiNodeCache, pt[p].key, resp)
            /\ ptLog' = Append(ptLog, [params |-> pt[p].params, key |-> pt[p].key,
                                       hit |-> FALSE, status |-> 200,
                                       body |-> resp, up |-> resp,
                                       stored |-> TRUE, seen |-> pt[p].seen,
                                       at |-> now])
    /\ pt' = [pt EXCEPT ![p] = PassIdle]
    /\ UNCHANGED started
    /\ UNCHANGED_notPass

InitPass ==
    /\ now = 0
    /\ cache = EmptyMap
    /\ feedUrls = <<>>
    /\ h = IdleH
    /\ fetches = EmptyMap
    /\ started = [req |-> 0, pre |-> 0]
    /\ lastSet = [n |-> 0, calls |-> EmptyMap]
    /\ lastGet = NoCall
    /\ g = NoCall
    /\ wikiNodeCache = EmptyMap
    /\ pt = [p \in Slots |-> PassIdle]
    /\ ptLog = <<>>
    /\ checkTimer = NoCall

NextPass ==
    \/ \E p \in Slots, params \in ParamLists :
          started.req < MaxPassRequests /\ PassRequest(p, params)
    \/ \E p \in Slots, resp \in PassBodies \cup PassFailures : PassResponse(p, resp)

SpecPass == InitPass /\ [][NextPass]_vars

\* The same endpoint under a clock that stops after this many steps
MaxPassTicks == 3

PassTick ==
    /\ now < MaxPassTicks * ClockStep
    /\ now' = now + ClockStep
    /\ UNCHANGED <<cache, feedUrls, lastSet, lastGet, h, fetches, g>>
    /\ UNCHANGED <<wikiNodeCache, pt, ptLog, started, checkTimer>>

\* the parameter lists of the requests under the clock
AgedParamLists == {<<>>, <<<<"a", "1">>>>}

NextPassAged ==
    \/ PassTick
    \/ \E p \in Slots, params \in AgedParamLists :
          started.req < MaxPassRequests /\ PassRequest(p, params)
    \/ \E p \in Slots, resp \in PassBodies \cup PassFailures : PassResponse(p, resp)

SpecPassAged == InitPass /\ [][NextPassAged]_vars

-----------------------------------------------------------------------------
(* The passthrough endpoint of the NodeCache variant (src/server.js 225-313) *)
(* Its cache is new NodeCache({ stdTTL: 600, checkperiod: 900 }): set stores *)
(* the value with the time now + 600 s, get returns an entry's value until   *)
(* that time has passed and deletes the entry when it finds it expired.  The *)
(* constructor starts the library's periodic check: every checkperiod = 900 s *)
(* a timer deletes every entry whose time has passed, with no request        *)
(* involved, and schedules the next check 900 s after that run.  The         *)
(* variable cache holds the NodeCache's entries, checkTimer the time the     *)
(* next check is due.                                                        *)

StdTTL == 600 * 1000

NodeSet(c, key, data, t) == MapSet(c, key, [data |-> data, expiry |-> Num(t + StdTTL)])

NodeFresh(c, key, t) == MapHas(c, key) /\ ~(c[key].expiry.n < t)

NodeGetRet(c, key, t) == IF NodeFresh(c, key, t) THEN c[key].data ELSE Undefined

NodeGetMap(c, key, t) == IF NodeFresh(c, key, t) THEN c ELSE MapDelete(c, key)

CheckPeriod == 900 * 1000

\* the periodic check: every entry whose time has passed is deleted
NodeCheckData(c, t) ==
    [key \in {k \in DOMAIN c : ~(c[k].expiry.n < t)} |-> c[key]]

\* the catch block of the NodeCache variant
NodeCatch(err) ==
    CASE err.t = "timeout" ->
            [status |-> 504,
             body |-> [t |-> "obj", error |-> Str(<<"Request to Wikipedia API timed out.">>)]]
      [] err.t = "status" ->
            [status |-> err.status,
             body |-> [t |-> "obj",
                       error |-> Str(<<"Error fetching from Wikipedia API: ",
                                       err.statusText>>),
                       details |-> err.data]]
      [] OTHER ->
            [status |-> 500,
             body |-> [t |-> "obj",
                       error |-> Str(<<"An unexpected error occurred: ">>
                                       \o ErrorMessage(err).s)]]

\* the clock of the NodeCache variant stops after this many steps
MaxNodeTicks == 6

\* requests started in the NodeCache variant
MaxNodeRequests == 2

UNCHANGED_notNode ==
    UNCHANGED <<feedUrls, lastSet, lastGet, h, fetches, g, wikiNodeCache>>

\* time passes; a check that is due runs before the clock moves on
NodeTick ==
    /\ now < MaxNodeTicks * ClockStep
    /\ now < checkTimer
    /\ now' = now + ClockStep
    /\ UNCHANGED <<cache, pt, ptLog, started, checkTimer>>
    /\ UNCHANGED_notNode

\* the timer of the periodic check fires
NodeCheck ==
    /\ checkTimer <= now
    /\ cache' = NodeCheckData(cache, now)
    /\ checkTimer' = now + CheckPeriod
    /\ UNCHANGED <<now, pt, ptLog, started>>
    /\ UNCHANGED_notNode

\* a request arrives
NodeRequest(p, params) ==
    /\ pt[p].pc = "idle"
    /\ LET cacheKey == JSONStringify(params)
           cachedData == NodeGetRet(cache, cacheKey, now)
       IN /\ cache' = NodeGetMap(cache, cacheKey, now)
          /\ IF Truthy(cachedData)
             THEN /\ ptLog' = Append(ptLog, [params |-> params, key |-> cacheKey,
                                             hit |-> TRUE, status |-> 200,
                                             body |-> cachedData, up |-> Undefined,
                                             stored |-> FALSE, seen |-> Len(ptLog),
                                             at |-> now])
                  /\ UNCHANGED pt
             ELSE /\ pt' = [pt EXCEPT ![p] = [pc |-> "http", params |-> params,
                                              key |-> cacheKey, seen |-> Len(ptLog)]]
                  /\ UNCHANGED ptLog
    /\ started' = [started EXCEPT !.req = @ + 1]
    /\ UNCHANGED <<now, checkTimer>>
    /\ UNCHANGED_notNode

\* axios.get settles
NodeResponse(p, resp) ==
    /\ pt[p].pc = "http"
    /\ IF resp \in PassFailures
       THEN /\ ptLog' = Append(ptLog, [params |-> pt[p].params, key |-> pt[p].key,
                                       hit |-> FALSE, status |-> NodeCatch(resp).status,
                                       body |-> NodeCatch(resp).body, up |-> resp,
                                       stored |-> FALSE, seen |-> pt[p].seen,
                                       at |-> now])
            /\ UNCHANGED cache
       ELSE /\ cache' = NodeSet(cache, pt[p].key, resp, now)
            /\ ptLog' = Append(ptLog, [params |-> pt[p].params, key |-> pt[p].key,
                                       hit |-> FALSE, status |-> 200,
                                       body |-> resp, up |-> resp,
                                       stored |-> TRUE, seen |-> pt[p].seen,
                                       at |-> now])
    /\ pt' = [pt EXCEPT ![p] = PassIdle]
    /\ UNCHANGED <<now, started, checkTimer>>
    /\ UNCHANGED_notNode

\* the parameter lists of the NodeCache variant's requests
NodeParamLists == {<<>>, <<<<"a", "1">>>>}

\* the state after new NodeCache(...): no entry, the first check due in 900 s
InitNode ==
    /\ now = 0
    /\ cache = EmptyMap
    /\ checkTimer = CheckPeriod
    /\ feedUrls = <<>>
    /\ h = IdleH
    /\ fetches = EmptyMap
    /\ started = [req |-> 0, pre |-> 0]
    /\ lastSet = [n |-> 0, calls |-> EmptyMap]
    /\ lastGet = NoCall
    /\ g = NoCall
    /\ wikiNodeCache = EmptyMap
    /\ pt = [p \in Slots |-> PassIdle]
    /\ ptLog = <<>>

NextNode ==
    \/ NodeTick
    \/ NodeCheck
    \/ \E p \in Slots, params \in NodeParamLists :
          started.req < MaxNodeRequests /\ NodeRequest(p, params)
    \/ \E p \in Slots, resp \in PassBodies \cup PassFailures : NodeResponse(p, resp)

SpecNode == InitNode /\ [][NextNode]_vars

-----------------------------------------------------------------------------
(* Properties of the aggregation variant                                     *)

\* the JSON body of the 200 answer
Body(hd) ==
    [wikipedia |-> hd.wikiText, rss |-> hd.rssResults, duckduckgo |-> hd.ddgResults]

Answered200(p) == h[p].kind = "req" /\ h[p].pc = "done" /\ h[p].status = 200

RssKeys == {RssKey(feedUrls[i]) : i \in 1..Len(feedUrls)}

Distance(a, b) == IF a < b THEN b - a ELSE a - b

\* the entry a feed contributes, given what its fetch (or the cache) gave
EntryOf(feed, parsedFeed, prompt) ==
    IF parsedFeed = Thrown
    THEN [feed |-> JsOr(feed.name, feed.url), error |-> Str(<<"Error fetching feed">>)]
    ELSE [feed |-> JsOr(feed.name, feed.url), articles |-> Articles(parsedFeed, prompt)]

\* the search results of an answer of the search upstream
SearchOf(resp) ==
    Arr([i \in 1..Min(10, Len(resp.results)) |->
           [title |-> resp.results[i].title, link |-> resp.results[i].link,
            snippet |-> resp.results[i].snippet]])

\* C2: calls of the feed adapter with different queries within one TTL window
\* of a feed, overlapping or not, trigger at most one upstream fetch of that
\* feed (two fetches that were answered with a feed were issued at least
\* TTL.rss apart); every article list is the filter of the parsed feed by the
\* call's own query; and what is stored under the feed's key is the raw feed.
C2_OneFetchPerWindow ==
    /\ \A key \in RssKeys \cap DOMAIN fetches :
          Len(fetches[key].fills) = 2 =>
             Distance(fetches[key].fills[1], fetches[key].fills[2]) >= TTL.rss
    /\ \A p \in Slots : \A i \in 1..Len(h[p].rssResults) :
          h[p].rssResults[i] = EntryOf(feedUrls[i], h[p].feedGot[i], h[p].prompt)
    /\ \A key \in RssKeys \cap DOMAIN cache : cache[key].data \in RawFeeds

\* C2 without its first part: the article lists and the stored value
C2_FilterOfRawFeed ==
    /\ \A p \in Slots : \A i \in 1..Len(h[p].rssResults) :
          h[p].rssResults[i] = EntryOf(feedUrls[i], h[p].feedGot[i], h[p].prompt)
    /\ \A key \in RssKeys \cap DOMAIN cache : cache[key].data \in RawFeeds

\* two calls with different queries got different article lists of one feed
\* that was fetched once
C2_TwoQueriesOneFetch ==
    /\ h[1].pc = "done" /\ h[2].pc = "done"
    /\ h[1].prompt # h[2].prompt
    /\ Len(h[1].rssResults) = 1 /\ Len(h[2].rssResults) = 1
    /\ h[1].feedGot = h[2].feedGot
    /\ h[1].rssResults # h[2].rssResults
    /\ fetches[RssKey(feedUrls[1])].n = 1

\* C3: when the summary upstream call fails, the answer still has status 200,
\* its summary field is 'Error fetching Wikipedia.', and every feed result
\* and search result fetched successfully in the request is in the answer.
C3_SummaryFailureAbsorbed ==
    \A p \in Slots :
       (h[p].kind = "req" /\ h[p].pc = "done" /\ h[p].wikiGot # NoCall
          /\ ~h[p].wikiGot.ok) =>
         /\ h[p].status = 200
         /\ Body(h[p]).wikipedia = Str(<<"Error fetching Wikipedia.">>)
         /\ Len(Body(h[p]).rss) = Len(feedUrls)
         /\ \A i \in 1..Len(feedUrls) :
               h[p].feedGot[i] # Thrown =>
                  Body(h[p]).rss[i] = EntryOf(feedUrls[i], h[p].feedGot[i], h[p].prompt)
         /\ (h[p].ddgGot # NoCall /\ h[p].ddgGot.ok) =>
               Body(h[p]).duckduckgo = SearchOf(h[p].ddgGot)

\* a request whose summary call failed, with a feed and the search fetched
C3_SummaryFailedOthersFetched ==
    \E p \in Slots :
       /\ Answered200(p)
       /\ h[p].wikiGot # NoCall /\ ~h[p].wikiGot.ok
       /\ \E i \in 1..Len(feedUrls) :
             h[p].feedGot[i] # Thrown /\ Len(h[p].feedGot[i].items) > 0
       /\ h[p].ddgGot # NoCall /\ h[p].ddgGot.ok /\ Len(h[p].ddgGot.results) > 0

\* C4: whatever upstreams fail, the handler never answers 5xx, and the feed
\* part of the answer has one entry per configured feed, in configuration
\* order, each the feed's articles or its error placeholder, decided by that
\* feed's own fetch alone.
C4_OneEntryPerFeed ==
    \A p \in Slots :
       /\ h[p].status # 500
       /\ (h[p].kind = "req" /\ h[p].pc = "done" /\ Truthy(h[p].prompt)) =>
            /\ h[p].status = 200
            /\ Len(Body(h[p]).rss) = Len(feedUrls)
            /\ \A i \in 1..Len(feedUrls) :
                  Body(h[p]).rss[i] = EntryOf(feedUrls[i], h[p].feedGot[i], h[p].prompt)

\* an answer with the first feed failed and the second feed's articles, the
\* summary and the search both failed
C4_OneFeedFailed ==
    \E p \in Slots :
       /\ Answered200(p)
       /\ h[p].feedGot[1] = Thrown
       /\ h[p].feedGot[2] # Thrown /\ Len(h[p].feedGot[2].items) > 0
       /\ h[p].wikiGot # NoCall /\ ~h[p].wikiGot.ok
       /\ h[p].ddgGot # NoCall /\ ~h[p].ddgGot.ok

\* a request without a prompt is answered 400 and has used no adapter
NoPromptNoAdapter ==
    \A p \in Slots :
       h[p].kind = "req" =>
         /\ ~Truthy(h[p].prompt) =>
               /\ h[p].pc = "done" /\ h[p].status = 400
               /\ h[p].nUp = 0 /\ ~h[p].touched
         /\ h[p].status = 400 => ~Truthy(h[p].prompt)

\* the step that answers 400 leaves the cache and the upstreams alone
Step400 ==
    \A p \in Slots :
       (h'[p] # h[p] /\ h'[p].status = 400) => (cache' = cache /\ fetches' = fetches)

\* C9: a request whose prompt is missing or empty is answered with a 4xx, and
\* for it no upstream call is issued and no cache entry is read, written or
\* removed.
C9_MissingPrompt == []NoPromptNoAdapter /\ [][Step400]_vars

\* a request with an empty prompt was answered 400 while the cache held entries
C9_EmptyPromptRejected ==
    \E p \in Slots :
       /\ h[p].status = 400 /\ h[p].prompt = Str(<<>>)
       /\ DOMAIN cache # {}

-----------------------------------------------------------------------------
(* Properties of the generative variant                                      *)

\* what res.write was given for attempt a, in order
WritesOf(a) == [i \in 1..Len(SelectSeq(g.out, LAMBDA w : w.att = a)) |->
                   SelectSeq(g.out, LAMBDA w : w.att = a)[i].data]

Markers == {i \in 1..Len(g.out) : g.out[i].att = 0}

\* the order section 4.2 fixes for two credentials and two models
FixedOrder(keys) ==
    IF Len(keys) = 0 THEN <<>>
    ELSE IF Len(keys) = 1
    THEN <<[key |-> keys[1], model |-> "gemini-2.0-flash"],
           [key |-> keys[1], model |-> "gemini-1.5-flash"]>>
    ELSE <<[key |-> keys[1], model |-> "gemini-2.0-flash"],
           [key |-> keys[1], model |-> "gemini-1.5-flash"],
           [key |-> keys[2], model |-> "gemini-2.0-flash"],
           [key |-> keys[2], model |-> "gemini-1.5-flash"]>>

\* attempt a succeeded at the upstream: its call was answered ok, with a body
Succeeded(a) == a <= Len(g.answers) /\ g.answers[a].kind = "ok"

\* the first three attempts failed at the upstream and the fourth succeeded
FourthSucceeded ==
    /\ g.ended /\ Len(g.answers) = 4
    /\ \A a \in 1..3 : ~Succeeded(a)
    /\ Succeeded(4)

\* what does hold of every response the loops have written to: nothing but
\* the terminal marker is ever written, once, as the last thing before the
\* response ends, and every combination was tried before
OnlyMarkerWritten ==
    /\ \A i \in 1..Len(g.out) : g.out[i].att = 0
    /\ Len(g.out) <= 1
    /\ ~g.success
    /\ (g.streaming /\ g.ended) <=> Len(g.out) = 1
    /\ Len(g.out) = 1 =>
          /\ g.out[1].data = <<"Error: All Gemini models and API keys failed.">>
          /\ Len(g.answers) = Len(FixedOrder(g.keys))

\* C5: with two credentials and two models, when the first three attempts
\* fail and the fourth succeeds, what the caller has received is the fourth
\* attempt's chunks in arrival order, and nothing that an earlier, failed
\* attempt produced.
C5_OnlyFourthAttemptReceived ==
    FourthSucceeded =>
        /\ Len(g.out) = Len(g.answers[4].body)
        /\ \A i \in 1..Len(g.out) :
              g.out[i].att = 4 /\ g.out[i].data = g.answers[4].body[i]

\* the fourth call was answered ok after three failures, and the response
\* has ended
C5_FourthAnsweredOk == FourthSucceeded

\* the attempts are made in the fixed order, one at a time, each once, the
\* next one only when the previous one has ended in the catch block
AttemptsInOrder ==
    /\ Len(g.started) <= Len(FixedOrder(g.keys))
    /\ \A a \in 1..Len(g.started) :
          /\ g.started[a].key = FixedOrder(g.keys)[a].key
          /\ g.started[a].model = FixedOrder(g.keys)[a].model
    /\ Len(g.started) - g.failed \in {0, 1}
    /\ g.failed = Len(g.answers)
    /\ Len(g.started) - g.failed = 1 <=> g.pc = "gen_fetch"

\* no attempt is started after an attempt has succeeded
NoStartAfterSuccess ==
    \A a \in 1..Len(g.answers) : Succeeded(a) => Len(g.started) = a

\* C6: attempts are made in the fixed order key 1/model 1, key 1/model 2,
\* key 2/model 1, key 2/model 2; an attempt starts only once every earlier
\* one has failed, at most one is in flight, no combination is tried twice,
\* and none is started after an attempt has succeeded.
C6_AttemptOrder == AttemptsInOrder /\ NoStartAfterSuccess

\* what does hold: the order, one attempt in flight, each combination once
C6_OrderOneAtATime == AttemptsInOrder

\* all four combinations were tried
C6_FourAttempts == g.ended /\ Len(g.started) = 4

\* C7: in a streamed response the terminal marker is written exactly once if
\* and only if every combination failed; then it is written after the last
\* attempt's failure and is the last thing written before the response
\* ends; it is never written when an attempt succeeded.
C7_TerminalMarker ==
    /\ Cardinality(Markers) <= 1
    /\ (g.streaming /\ g.ended) =>
          (Markers # {} <=> \A a \in 1..Len(FixedOrder(g.keys)) : ~Succeeded(a))
    /\ Markers # {} =>
          /\ Markers = {Len(g.out)}
          /\ g.out[Len(g.out)].data = <<"Error: All Gemini models and API keys failed.">>
          /\ g.ended
          /\ \A a \in 1..Len(g.answers) : ~Succeeded(a)

\* what does hold: C7 with an attempt counted as failed whenever it ended in
\* the catch block
C7_MarkerWhenAllCaught ==
    /\ Cardinality(Markers) <= 1
    /\ (g.streaming /\ g.ended) => (Markers # {} <=> g.failed = Len(FixedOrder(g.keys)))
    /\ Markers # {} => Markers = {Len(g.out)} /\ g.ended

\* every call was answered with an error and the marker was written
C7_AllRejected ==
    /\ g.ended /\ Markers # {} /\ Len(g.keys) = 2
    /\ \A a \in 1..Len(g.answers) : ~Succeeded(a)

\* C8: during an attempt, the chunks written are at every moment a prefix of
\* the chunks read from upstream, in the same order, none dropped,
\* duplicated or reordered, and are all of them once the attempt succeeds.
C8_WrittenAsRead ==
    \A a \in 1..Len(g.answers) :
        /\ Len(WritesOf(a)) <= Len(g.answers[a].body)
        /\ \A i \in 1..Len(WritesOf(a)) : WritesOf(a)[i] = g.answers[a].body[i]
        /\ Succeeded(a) => WritesOf(a) = g.answers[a].body

\* an attempt's call was answered ok with a body of two chunks
C8_TwoChunksAnswered ==
    \E a \in 1..Len(g.answers) : Succeeded(a) /\ Len(g.answers[a].body) = 2

-----------------------------------------------------------------------------
(* Properties of the passthrough endpoint                                    *)

\* the same parameters with the same values, whatever the order
SameParameters(ps, qs) ==
    {ps[i] : i \in 1..Len(ps)} = {qs[i] : i \in 1..Len(qs)}

\* the answer of request i was stored, and request j arrived after that and
\* after any other answer stored since under the same key was stored
ServedFrom(i, j) ==
    /\ i < j
    /\ ~ptLog[i].hit
    /\ ptLog[i].status = 200
    /\ Truthy(ptLog[i].body)
    /\ ptLog[j].seen >= i
    /\ \A k \in (i + 1)..ptLog[j].seen :
          (ptLog[k].key = ptLog[i].key /\ ~ptLog[k].hit /\ ptLog[k].status = 200)
             => Truthy(ptLog[k].body)

\* C10: two passthrough requests with the same parameters and values in
\* different orders have the same cache key, and the later one, arriving
\* once the earlier one's answer has been stored, is answered from that
\* entry without an upstream call.
C10_KeyIgnoresParameterOrder ==
    \A i \in 1..Len(ptLog), j \in 1..Len(ptLog) :
        (SameParameters(ptLog[i].params, ptLog[j].params) /\ ServedFrom(i, j)) =>
            /\ ptLog[i].key = ptLog[j].key
            /\ ptLog[j].hit

\* what does hold: the later request hits when it carries the parameters in
\* the same order
C10_SameOrderHits ==
    \A i \in 1..Len(ptLog), j \in 1..Len(ptLog) :
        (ptLog[i].params = ptLog[j].params /\ ServedFrom(i, j)) => ptLog[j].hit

\* a stored answer, then a request with the same parameters in another order
C10_ReorderedRequest ==
    \E i \in 1..Len(ptLog), j \in 1..Len(ptLog) :
        /\ i < j
        /\ SameParameters(ptLog[i].params, ptLog[j].params)
        /\ ptLog[i].params # ptLog[j].params
        /\ ServedFrom(i, j)

-----------------------------------------------------------------------------
(* Properties of the cache keys                                              *)

\* the summary, or the search results, of the request in slot p came from
\* the cache
SummaryFromCache(p) == Answered200(p) /\ h[p].wikiGot = NoCall
SearchFromCache(p) == Answered200(p) /\ h[p].ddgGot = NoCall

\* C11: requests that differ in adapter or in their parameter value, values
\* that are not strings included, use different cache keys, so that no
\* request is served a value cached for another request.
C11_KeysNeverCollide ==
    /\ \A q1 \in KeyPrompts, q2 \in KeyPrompts :
          /\ WikiKey(q1) # DdgKey(q2)
          /\ \A i \in 1..Len(feedUrls) :
                RssKey(feedUrls[i]) # WikiKey(q1) /\ RssKey(feedUrls[i]) # DdgKey(q1)
    /\ (/\ Answered200(1) /\ h[1].wikiGot # NoCall /\ h[1].wikiGot.ok
        /\ Answered200(2) /\ h[1].prompt # h[2].prompt) =>
          /\ WikiKey(h[1].prompt) # WikiKey(h[2].prompt)
          /\ DdgKey(h[1].prompt) # DdgKey(h[2].prompt)
          /\ ~SummaryFromCache(2)
          /\ ~SearchFromCache(2)

\* what does hold: the keys of different adapters never collide, nor do the
\* keys of two different string prompts
C11_AdaptersApart ==
    /\ \A q1 \in KeyPrompts \cup Queries, q2 \in KeyPrompts \cup Queries :
          /\ WikiKey(q1) # DdgKey(q2)
          /\ (q1.t = "str" /\ q2.t = "str" /\ q1 # q2) =>
                (WikiKey(q1) # WikiKey(q2) /\ DdgKey(q1) # DdgKey(q2))
          /\ \A i \in 1..Len(feedUrls) :
                RssKey(feedUrls[i]) # WikiKey(q1) /\ RssKey(feedUrls[i]) # DdgKey(q1)

\* a second request with another prompt was answered after the first one's
\* summary had been cached
C11_TwoPromptsAnswered ==
    /\ Answered200(1) /\ Answered200(2)
    /\ h[1].prompt # h[2].prompt
    /\ h[1].wikiGot # NoCall /\ h[1].wikiGot.ok
    /\ SummaryFromCache(2)

-----------------------------------------------------------------------------
(* Properties of the passthrough endpoint's error answers                    *)

\* an error answer that tells the caller of the timeout
TimeoutAnswer(entry) ==
    /\ entry.status >= 500
    /\ entry.body.error \in {Str(<<"Request to Wikipedia API timed out.">>),
                             Str(<<"timeout of 15000ms exceeded">>)}

\* C12: when the passthrough's upstream answers with a non-success status,
\* the caller is answered with that status and the upstream's error body;
\* when the upstream call times out the caller gets a timeout error answer;
\* in both cases the passthrough cache is not written.
C12_StatusForwarded ==
    \A k \in 1..Len(ptLog) :
        /\ ptLog[k].up.t = "status" =>
              /\ ptLog[k].status = ptLog[k].up.status
              /\ "details" \in DOMAIN ptLog[k].body
              /\ ptLog[k].body.details = ptLog[k].up.data
              /\ ~ptLog[k].stored
        /\ ptLog[k].up.t = "timeout" =>
              /\ TimeoutAnswer(ptLog[k])
              /\ ~ptLog[k].stored

\* what does hold for src/server.js 499-521: a failed upstream call is
\* answered 500 with the error's message, and the cache is not written
C12_FailureAnswered500 ==
    \A k \in 1..Len(ptLog) :
        ptLog[k].up.t \in {"status", "timeout", "throw"} =>
            /\ ptLog[k].status = 500
            /\ ptLog[k].body = [t |-> "obj", error |-> ErrorMessage(ptLog[k].up)]
            /\ ~ptLog[k].stored
            /\ ~MapHas(wikiNodeCache, ptLog[k].key)
                  \/ wikiNodeCache[ptLog[k].key] \in PassBodies

\* the upstream answered 404, and another call timed out
C12_UpstreamFailed ==
    /\ \E k \in 1..Len(ptLog) : ptLog[k].up.t = "status"
    /\ \E k \in 1..Len(ptLog) : ptLog[k].up.t = "timeout"

-----------------------------------------------------------------------------
(* Properties of the order of a request's upstream calls                     *)

\* a step in which the request in slot p issues an upstream call although
\* one of its calls has been answered already
IssuesAfterAnAnswer(p) ==
    /\ h'[p].kind = "req"
    /\ h'[p].nUp > h[p].nUp
    /\ h'[p].nDone > 0

\* C13: the independent upstream calls of one aggregation request (summary,
\* each feed, search) are all started before any of them has completed.
C13_CallsIssuedTogether == [][\A p \in Slots : ~IssuesAfterAnAnswer(p)]_vars

\* what does hold: a request has at most one upstream call outstanding, and
\* issues the next one in the step that receives the previous one's answer
C13_OneCallAtATime ==
    \A p \in Slots :
        h[p].kind = "req" =>
            /\ h[p].nUp - h[p].nDone \in {0, 1}
            /\ h[p].nUp - h[p].nDone = 1 <=> h[p].pc \in {"wiki_http", "rss_http", "ddg_http"}

\* a request answered after three upstream calls or more
C13_SeveralCalls ==
    \E p \in Slots : Answered200(p) /\ h[p].nDone >= 3

-----------------------------------------------------------------------------
(* Properties of the generative variant's prompt                             *)

\* the summary adapter and every feed adapter call of the request returned
BackgroundReturned ==
    /\ g.wikiText # Undefined
    /\ Len(g.rss) = Len(feedUrls)
    /\ \A i \in 1..Len(g.rss) : g.rss[i] # Pending

\* C14: in the generative variant no generative-text call is issued before
\* the summary adapter and every configured feed adapter call of the request
\* have returned, and the prompt sent in every attempt contains the summary
\* text and every feed's text of that request.
C14_PromptAfterBackground ==
    /\ g.pc \in {"wiki_http", "rss_http"} => g.started = <<>>
    /\ g.started # <<>> =>
          /\ BackgroundReturned
          /\ \A a \in 1..Len(g.started) :
                /\ g.started[a].text.t = "str"
                /\ Includes(g.started[a].text.s, g.wikiText.s)
                /\ \A i \in 1..Len(feedUrls) :
                      Includes(g.started[a].text.s,
                               <<"Feed: ">> \o feedUrls[i].s \o <<"\n">> \o g.rss[i].s)

\* a second attempt was made with a summary, the headlines of one feed and
\* the error text of the other
C14_SecondAttemptSent ==
    /\ Len(g.started) >= 2
    /\ g.wikiText = Str(<<"W">>)
    /\ Len(g.rss) = 2
    /\ g.rss[1] = Str(<<"Error fetching RSS from ", "u", "1">>)
    /\ Len(g.rss[2].s) > 3

-----------------------------------------------------------------------------
(* Properties of the upstream calls' timeouts                                *)

\* C15: every upstream call ends within its timeout as a success or as a
\* normal failure, so that every request is answered in the end, even when
\* an upstream never answers.
C15_RequestCompletes == (g.pc # "idle") ~> g.ended

\* what does hold: a request always gets as far as its first generative call
\* or its answer, the summary and feed calls being bounded by their timers
C15_BackgroundCompletes == (g.pc # "idle") ~> (g.ended \/ g.started # <<>>)

-----------------------------------------------------------------------------
(* Properties of overlapping runs on one feed key                            *)

\* the entry that a setCache call leaves
EntryWritten(call) ==
    [data |-> call.data, expiry |-> Num(call.at + ContractTTL(call.type))]

\* C16: when preloader runs and request handlers overlap on a feed key, none
\* of them fails because of it, and every cache entry is at all times the
\* value of the last setCache call on its key with that same call's expiry.
C16_LastWriteWins ==
    /\ \A key \in DOMAIN cache :
          /\ MapHas(lastSet.calls, key)
          /\ cache[key] = EntryWritten(lastSet.calls[key])
    /\ \A p \in Slots :
          /\ h[p].status # 500
          /\ \A i \in 1..Len(h[p].rssResults) :
                h[p].rssResults[i] = EntryOf(feedUrls[i], h[p].feedGot[i], h[p].prompt)

\* the startup preload and a request both fetched the feed at time 0, with
\* different answers, and later a run wrote the key again
C16_OverlappingWrites ==
    /\ h[1].kind = "pre" /\ h[1].pc = "done"
    /\ Answered200(2)
    /\ h[1].nUp = 1 /\ h[2].nUp = 3
    /\ h[1].feedGot[1] # Thrown /\ h[2].feedGot[1] # Thrown
    /\ h[1].feedGot[1] # h[2].feedGot[1]
    /\ MapHas(fetches, RssKey(feedUrls[1]))
    /\ fetches[RssKey(feedUrls[1])].fills = <<0, 0>>
    /\ MapHas(cache, RssKey(feedUrls[1]))

-----------------------------------------------------------------------------
(* Properties of the feed adapter's filter                                   *)

\* the letters of the model's strings, upper case and lower case
SameLetter(c, d) ==
    \/ c = d
    \/ {c, d} = {"A", "a"}
    \/ {c, d} = {"B", "b"}

\* needle is a case-insensitive substring of hay
InsideIgnoringCase(needle, hay) ==
    \E k \in 0..(Len(hay) - Len(needle)) :
        \A j \in 1..Len(needle) : SameLetter(hay[k + j], needle[j])

\* the item has the query in its title or in its snippet
ItemMatches(item, query) ==
    \/ item.title.t = "str" /\ item.title.s # <<>>
          /\ InsideIgnoringCase(query.s, item.title.s)
    \/ item.contentSnippet.t = "str" /\ item.contentSnippet.s # <<>>
          /\ InsideIgnoringCase(query.s, item.contentSnippet.s)

\* the positions of the feed's items that match the query
MatchingAt(parsedFeed, query) ==
    {k \in 1..Len(parsedFeed.items) : ItemMatches(parsedFeed.items[k], query)}

\* the feed entries returned for a feed that was fetched or read from the cache
FeedEntries ==
    {<<p, i>> \in Slots \X (1..Len(feedUrls)) :
        i <= Len(h[p].rssResults) /\ h[p].feedGot[i] # Thrown}

\* C17: for a feed fetched or read from the cache, when the query matches
\* none of its items (a feed without items included) the article list is
\* one placeholder item whose title names the query; the article list of a
\* successful feed result is never empty.
C17_PlaceholderWhenNoMatch ==
    \A e \in FeedEntries :
        LET entry == h[e[1]].rssResults[e[2]]
            query == h[e[1]].prompt
        IN /\ "articles" \in DOMAIN entry
           /\ Len(entry.articles) >= 1
           /\ MatchingAt(h[e[1]].feedGot[e[2]], query) = {} =>
                 entry.articles =
                    <<[title |-> Str(<<"No matching articles found for \"">>
                                       \o query.s \o <<"\"">>)]>>

\* a feed with items none of which matches the query, and a feed without items
C17_NoItemMatched ==
    /\ \E e \in FeedEntries :
          /\ Len(h[e[1]].feedGot[e[2]].items) > 0
          /\ MatchingAt(h[e[1]].feedGot[e[2]], h[e[1]].prompt) = {}
    /\ \E e \in FeedEntries : Len(h[e[1]].feedGot[e[2]].items) = 0

\* the k-th smallest element of a set of numbers
RECURSIVE Kth(_, _)
Kth(set, k) ==
    LET least == CHOOSE x \in set : \A y \in set : x <= y
    IN IF k = 1 THEN least ELSE Kth(set \ {least}, k - 1)

\* the article made of an item
ArticleOf(item) ==
    [title |-> IF Truthy(item.title) THEN item.title ELSE Str(<<"Untitled">>),
     description |-> IF Truthy(item.contentSnippet) THEN item.contentSnippet
                     ELSE IF Truthy(item.content) THEN item.content
                     ELSE Str(<<"No description available.">>),
     link |-> IF Truthy(item.link) THEN item.link ELSE Str(<<"No link available.">>)]

\* C18: when the query matches n > 0 items of a feed, the articles are the
\* first min(5, n) matching items, in the feed's order, an item matching iff
\* the query is a case-insensitive substring of its title or of its snippet;
\* with an empty query every item with a title or a snippet matches.
C18_FirstFiveMatches ==
    \A e \in FeedEntries :
        LET entry == h[e[1]].rssResults[e[2]]
            items == h[e[1]].feedGot[e[2]].items
            at == MatchingAt(h[e[1]].feedGot[e[2]], h[e[1]].prompt)
            n == Cardinality(at)
        IN /\ h[e[1]].prompt = Str(<<>>) =>
                 at = {k \in 1..Len(items) :
                          Truthy(items[k].title) \/ Truthy(items[k].contentSnippet)}
           /\ n > 0 =>
                 /\ "articles" \in DOMAIN entry
                 /\ Len(entry.articles) = Min(5, n)
                 /\ \A k \in 1..Len(entry.articles) :
                       entry.articles[k] = ArticleOf(items[Kth(at, k)])

\* a query that six of nine items match, one of them by its snippet alone,
\* and another answer with fewer than five matches
C18_MoreThanFiveMatch ==
    /\ \E e \in FeedEntries :
          /\ Cardinality(MatchingAt(h[e[1]].feedGot[e[2]], h[e[1]].prompt)) = 6
          /\ h[e[1]].kind = "req"
          /\ Len(h[e[1]].rssResults[e[2]].articles) = 5
    /\ \E e \in FeedEntries :
          /\ h[e[1]].kind = "pre"
          /\ Cardinality(MatchingAt(h[e[1]].feedGot[e[2]], h[e[1]].prompt)) = 8

-----------------------------------------------------------------------------
(* Properties of the age of the feed data served                             *)

\* in this step handler p's feed adapter call returned the cached value of
\* the feed: a feed entry was added, by a run that started in a free slot or
\* by a run that was not waiting for the feed's upstream
ServedFromCache(p) ==
    \/ /\ Free(p)
       /\ started' # started
       /\ \A q \in Slots \ {p} : h'[q] = h[q]
       /\ Len(h'[p].rssResults) > 0
    \/ /\ ~Free(p)
       /\ h[p].pc # "rss_http"
       /\ Len(h'[p].rssResults) > Len(h[p].rssResults)

\* C19: feed data served is never older than the feed TTL: a feed adapter
\* call made TTL(rss) or more after the upstream fetch that obtained the
\* cached value fetches again instead of returning that value, however many
\* cache hits came in between.
C19_NeverOlderThanTTL ==
    [][\A p \in Slots :
          ServedFromCache(p) =>
             now < FetchesOf(fetches, RssKey(feedUrls[1])).got + TTL.rss]_vars

\* what does hold: a value is served from the cache only within TTL(rss) of
\* the last setCache call on the key, and every call that served it is such
\* a call
C19_WithinTTLOfLastSet ==
    [][\A p \in Slots :
          ServedFromCache(p) =>
             /\ now < lastSet.calls[RssKey(feedUrls[1])].at + TTL.rss
             /\ lastSet'.calls[RssKey(feedUrls[1])].at = now]_vars

\* a value fetched at time 0 was served at TTL(rss) by the second preloader
\* run, after a cache hit in between
C19_ServedAfterRenewal ==
    /\ now = TTL.rss
    /\ h[1].kind = "pre" /\ h[1].pc = "done" /\ started.pre = 2
    /\ FetchesOf(fetches, RssKey(feedUrls[1])).n = 1
    /\ FetchesOf(fetches, RssKey(feedUrls[1])).got = 0

-----------------------------------------------------------------------------
(* Properties of the lifetime of the passthrough endpoint's entries          *)

\* answer j is the body that answer i stored under the same key, with no
\* other body stored under that key in between
HitOn(i, j) ==
    /\ i < j
    /\ ptLog[j].hit /\ ptLog[i].stored
    /\ ptLog[i].key = ptLog[j].key
    /\ \A k \in (i + 1)..(j - 1) : ~(ptLog[k].stored /\ ptLog[k].key = ptLog[j].key)

\* C20: a response cached by the passthrough endpoint has a bounded
\* lifetime: it is served from the cache only until its expiry time, the
\* time it was stored plus the cache's TTL, has passed; after that a request
\* with the same parameters goes upstream.  No entry is served indefinitely.
C20_BoundedLifetime ==
    \A j \in 1..Len(ptLog) :
        ptLog[j].hit =>
            \E i \in 1..(j - 1) : HitOn(i, j) /\ ptLog[j].at <= ptLog[i].at + StdTTL

\* what the endpoint of src/server.js 499-521 does: once a truthy body is
\* stored under a key, the Map keeps an entry under that key, with no expiry
C20_EntryKept ==
    /\ \A i \in 1..Len(ptLog) : ptLog[i].stored => MapHas(wikiNodeCache, ptLog[i].key)
    /\ \A key \in DOMAIN wikiNodeCache : "expiry" \notin DOMAIN wikiNodeCache[key]

\* in the NodeCache variant an expired entry is removed by the request that
\* finds it, and that request goes upstream
C20_ExpiredRemoved ==
    [][\A p \in Slots :
          \A key \in DOMAIN cache :
              /\ pt[p].pc = "idle" /\ pt'[p].pc = "http" /\ pt'[p].key = key
              /\ cache[key].expiry.n < now
              => ~MapHas(cache', key)]_vars

\* and the periodic check leaves no entry whose time has passed, whether or
\* not a request for its key arrives
C20_CheckRemovesExpired ==
    [][checkTimer' # checkTimer =>
          /\ \A key \in DOMAIN cache' : ~(cache'[key].expiry.n < now)
          /\ \A key \in DOMAIN cache :
                 ~(cache[key].expiry.n < now) => MapHas(cache', key)
          /\ checkTimer' = now + CheckPeriod]_vars

\* an entry stored at time 0 was removed by the check at 15 min, with no
\* second request
C20_RemovedByCheck ==
    /\ now = 15 * Minute /\ checkTimer = now + CheckPeriod
    /\ started.req = 1 /\ Len(ptLog) = 1
    /\ ptLog[1].stored /\ ptLog[1].at = 0
    /\ cache = EmptyMap

\* a body stored at time 0 is served from the cache at 15 min
C20_ServedAtFifteenMinutes ==
    \E i, j \in 1..Len(ptLog) :
        HitOn(i, j) /\ ptLog[i].at = 0 /\ ptLog[j].at = 15 * Minute

-----------------------------------------------------------------------------
(* Properties of what the adapters store                                     *)

\* the values the summary and search adapters return in place of a result
Placeholders == {WikiError, NoWikiContent, DdgError}

\* C21: the cache holds only values obtained from successful upstream
\* responses: a failed adapter call (network error, timeout, or a summary
\* response without extract) returns the placeholder and leaves the cache as
\* it was, so that no placeholder or error value is stored under any key.
C21_NoPlaceholderStored ==
    \A key \in DOMAIN cache : cache[key].data \notin Placeholders

\* what does hold: the values returned by the catch blocks are never stored
C21_NoErrorValueStored ==
    \A key \in DOMAIN cache : cache[key].data \notin {WikiError, DdgError}

\* and a summary call that threw leaves the entry of its key as it was
C21_ThrownSummaryStoresNothing ==
    [][\A p \in Slots :
          LET key == WikiKey(h[p].prompt)
          IN (/\ h[p].pc = "wiki_http"
              /\ h'[p].wikiGot # NoCall
              /\ (~h'[p].wikiGot.ok \/ Len(h'[p].wikiGot.pages) = 0))
             => /\ MapHas(cache', key) <=> MapHas(cache, key)
                /\ MapHas(cache, key) => cache'[key] = cache[key]]_vars

\* a request whose summary response had no extract was answered, and the
\* next request for the same prompt took its summary from the cache
C21_PlaceholderServedFromCache ==
    \E p \in Slots :
        /\ SummaryFromCache(p)
        /\ h[p].wikiText = NoWikiContent

-----------------------------------------------------------------------------
(* Properties of cache hits                                                  *)

\* in this step the request ran its fetchRSS calls up to their awaits
FeedCallsMade == g.rss = <<>> /\ g'.rss # <<>>

\* C22: when the cache holds an unexpired entry for an adapter's key, a call
\* of the adapter returns the cached value and issues no upstream call, for
\* every value the adapter can have stored, empty ones included (the empty
\* headline text of a feed without items); an upstream call is issued only
\* on a miss.
C22_CachedValueReturned ==
    [][FeedCallsMade =>
          \A i \in 1..Len(feedUrls) :
              CacheFresh(cache, RssUrlKey(feedUrls[i]), now) =>
                 /\ i \notin PendingIn(g'.rss)
                 /\ g'.rss[i] = cache[RssUrlKey(feedUrls[i])].data]_vars

\* what does hold: an unexpired entry is returned when its value is truthy,
\* and a feed call goes upstream when there is no such entry
C22_TruthyValueReturned ==
    [][FeedCallsMade =>
          \A i \in 1..Len(feedUrls) :
              LET key == RssUrlKey(feedUrls[i])
              IN IF CacheFresh(cache, key, now) /\ Truthy(cache[key].data)
                 THEN g'.rss[i] = cache[key].data
                 ELSE i \in PendingIn(g'.rss)]_vars

\* the preloader stored the empty headline text of a feed without items, and
\* the request that followed fetched the feed again
C22_EmptyHeadlinesRefetched ==
    /\ g.pre = {}
    /\ g.pc = "rss_http"
    /\ 1 \in PendingIn(g.rss)
    /\ MapHas(cache, RssUrlKey(feedUrls[1]))
    /\ cache[RssUrlKey(feedUrls[1])].data = Str(<<>>)

\* the passthrough endpoint: an empty body was stored under a key, and a
\* later request with that key went upstream
C22_EmptyBodyRefetched ==
    \E i, j \in 1..Len(ptLog) :
        /\ i <= ptLog[j].seen
        /\ ptLog[i].stored /\ ptLog[i].body = Str(<<>>)
        /\ ptLog[i].key = ptLog[j].key
        /\ ptLog[j].up # Undefined

\* the search adapter of the aggregation variant: an empty result list is an
\* array, which is truthy, and is returned from the cache
C22_EmptyListReturned ==
    \E p \in Slots :
        /\ SearchFromCache(p)
        /\ h[p].ddgResults = Arr(<<>>)

====
